---- MODULE Spec2Model ----
(***************************************************************************)
(* The notebooks of the workshop as state machines.  A notebook session is *)
(* one kernel: the operator executes code cells one at a time, each cell   *)
(* at most once per session, in an order the operator chooses.  A cell     *)
(* that makes a remote call blocks the kernel until the service answers    *)
(* (returns a response or raises).  An uncaught exception ends the cell;   *)
(* the names the cell bound before the exception stay bound.               *)
(***************************************************************************)
EXTENDS Integers, Sequences, FiniteSets, TLC

\* ------------------------------------------------------------------ bounds
MaxFaces == 2
MaxPolls == 3
MaxJobId == 2
\* container starts the orchestrator is followed for
MaxStarts == 2
\* the latest rating timestamp; the earliest is 0
MaxTimestamp == 3
\* the ratings of the dataset, standing for its 100,000
NumRatings == 4
\* passes over the training set that are followed
MaxEpochs == 2
\* entries of getCelebrityRecognition['Celebrities']
MaxDetections == 3

\* faces in the response the drawing cells work on
MaxDrawnFaces == 5

\* ------------------------------------------------------- program constants
PollSeconds == 5
\* if(cconfidence > 95)
ConfidenceThreshold == 95

\* -------------------------------------------------------------- the cells
\* celebrity-recognition notebook, in notebook order
CelebCells ==
  << "c_setup", "c_imageName", "c_recognize", "c_defDraw", "c_extract",
     "c_videoName", "c_start", "c_wait" >>

\* the video cells of that notebook with the listing of the result, run
\* after the setup cell in a kernel of their own
VideoCells == << "c_setup", "c_videoName", "c_start", "c_wait", "c_list" >>

\* training-submission notebook, in notebook order
TrainCellsSwapped ==
  << "t_setup", "t_estimator", "t_experiment", "t_trial", "t_expConfig",
     "t_fit", "t_jobName", "t_download", "t_wait", "t_untar", "t_analytics",
     "t_store" >>

TrainCells ==
  << "t_setup", "t_estimator", "t_experiment", "t_trial", "t_expConfig",
     "t_fit", "t_jobName", "t_wait", "t_download", "t_untar", "t_analytics",
     "t_store" >>

\* pipeline notebook, in notebook order
PipeCells ==
  << "p_region", "p_imports", "p_loadOps", "p_config", "p_processingCode",
     "p_trainingCode", "p_helpers", "p_defPipeline", "p_compile", "p_run" >>

Notebooks == {"celeb", "train", "pipe"}

\* what an operator may run: a notebook, or the job manifest
Scripts == Notebooks \cup {"pod"}

CellOrder(nb) ==
  CASE nb = "celeb" -> CelebCells
    [] nb = "train" -> TrainCells
    [] nb = "pipe"  -> PipeCells
    [] nb = "video" -> VideoCells
    [] OTHER        -> << >>

Range(s) == {s[i] : i \in 1..Len(s)}

Cells ==
  Range(CelebCells) \cup Range(TrainCells) \cup Range(PipeCells)
    \cup Range(VideoCells)

SeqsUpTo(S, n) == UNION {[1..k -> S] : k \in 0..n}

\* ------------------------------------------------------ the remote surface
\* operations the notebooks issue
IssuedOps ==
  { "recognize_celebrities", "download_file", "start_celebrity_recognition",
    "get_celebrity_recognition", "create_experiment", "create_trial",
    "create_training_job", "wait_for_job", "search", "kfp_create_experiment",
    "run_pipeline" }

\* operations of the same services that stop, cancel or delete a resource
DestructiveOps ==
  { "stop_training_job", "delete_experiment", "delete_trial",
    "delete_endpoint", "delete_model", "terminate_run" }

RemoteOps == IssuedOps \cup DestructiveOps

JobIds == 1..MaxJobId

\* what recognize_celebrities can answer
FaceNames == {"Clarkson", "May"}
BoxIds == {1, 2}
Faces == [Name : FaceNames, BoundingBox : BoxIds]
RecognizeResponses == [CelebrityFaces : SeqsUpTo(Faces, MaxFaces)]
NoResponse == [CelebrityFaces |-> << >>]

VideoStatuses == {"IN_PROGRESS", "SUCCEEDED", "FAILED"}

VARIABLES
  notebook,      \* which notebook this session runs
  outcome,       \* per cell: "-" not run, "running", "ok" or the exception
  pc,            \* where the kernel is: "idle" or a position inside a cell
  bound,         \* the global names bound in the kernel
  runAll,        \* TRUE while the cells ran top to bottom without an error
  outstanding,   \* remote calls issued and not yet answered
  callCount,     \* per remote operation: how often it has been issued
  \* celebrity-recognition notebook
  recognizeCelebritiesResponse, boxes, startCelebrityRekognition,
  celebrityJobId, getCelebrityRecognition,
  jobs,          \* the service's video jobs: JobId -> JobStatus
  sleeps,        \* time.sleep calls of the wait cell
  delays,        \* the durations those sleeps were called with
  lateGets,      \* status calls issued after a final status was stored
  displayed,     \* what the wait cell displayed
  drawInvoked,   \* source images drawBoundingBoxes was called with
  files,         \* images saved in tempFolder
  \* training-submission notebook
  trainJob,      \* the training job's status at the service
  latestJob,     \* estimator.latest_training_job is set
  modelArchive,  \* ./model.tar.gz exists
  modelDir,      \* ./model/ holds the extracted model
  tracking,      \* experiment-tracking entities that exist at the service
  estimatorConfig, \* hyperparameters and metric_definitions of estimator
  queriedMetrics,  \* metric_names the lineage query was built with
  store,         \* names held by the IPython store, which outlives sessions
  stored,        \* names this session wrote to the store
  \* pipeline notebook
  awsRegion, ecrRegistry,
  pipelineOps,   \* steps instantiated by the pipeline function
  zipWritten,    \* mnist-classification-pipeline.zip exists
  \* the pod of the job manifest
  podPhase,      \* "-" before the pod is created, then the pod's phase
  containerState, \* per container: "waiting", "running" or "terminated"
  starts,        \* per container: how often it was started
  exits,         \* per container: how often it exited
  \* scraping of a training-log line with metrics_definitions
  logLine,       \* the line, one character per element
  defIndex,      \* definitions applied to the line so far
  emitted,       \* the metrics emitted for the line
  \* the two-tower model of the feature-experimentation notebook
  use_timestamps, \* the argument MovielensModel is built with
  attrs,         \* attributes set on the UserModel instance
  attrReads,     \* attributes of the instance that were read
  inputs,        \* the query inputs the model is called with, in order
  userOutputs,   \* what UserModel.call returned, per call
  queryWidths,   \* width of what query_model returned, per call
  movieWidth,    \* width of what MovieModel.call returned, 0 before a call
  candidateWidth, \* width of what candidate_model returned, 0 before
  \* the train-test split of the feature-experimentation notebook
  shuffled,      \* the order the first pass over shuffled fixed
  epochs,        \* passes made over cached_train
  lastEpoch,     \* the ratings the latest pass over cached_train gave
  trainSeen,     \* ratings any pass over cached_train gave
  testCache,     \* the ratings cached_test holds, << >> before a pass
  \* the listing cell of the celebrity-recognition notebook
  celebrities,   \* getCelebrityRecognition['Celebrities']
  listed,        \* entries the result loop has handled
  theCelebs,     \* keys of the dict, in insertion order
  strDetail,     \* lines added to strDetail after its heading
  strOverall,    \* lines added to strOverall after its heading
  listError,     \* "-" or the exception the cell raised
  listDone,      \* the cell has displayed strOverall
  \* the cells that draw the faces of an image
  drawnCell,     \* "celebrity" or "custom": the cell that is run
  faceResponse,  \* the response of recognize_celebrities
  sourceImage,   \* the key of the image, one character per element
  boxList,       \* the list handed to drawBoundingBoxes
  boxIndex,      \* boxes the loop has drawn
  col,           \* the colour index of drawBoundingBoxes
  drawOps,       \* calls made on the ImageDraw object, in order
  tempFiles,     \* files in tempFolder
  shown,         \* the image was displayed
  drawPc         \* where the cell is, or the exception that ended it

kernelVars == << notebook, outcome, pc, bound, runAll >>
remoteVars == << outstanding, callCount >>
celebVars ==
  << recognizeCelebritiesResponse, boxes, startCelebrityRekognition,
     celebrityJobId, getCelebrityRecognition, jobs, sleeps, delays, lateGets,
     displayed, drawInvoked, files >>
trainVars == << trainJob, latestJob, modelArchive, modelDir, tracking >>
pipeVars == << awsRegion, ecrRegistry, pipelineOps, zipWritten >>
trainExtVars == << estimatorConfig, queriedMetrics, store, stored >>
podVars == << podPhase, containerState, starts, exits >>
metricVars == << logLine, defIndex, emitted >>
modelVars ==
  << use_timestamps, attrs, attrReads, inputs, userOutputs, queryWidths,
     movieWidth, candidateWidth >>
splitVars == << shuffled, epochs, lastEpoch, trainSeen, testCache >>
listVars ==
  << celebrities, listed, theCelebs, strDetail, strOverall, listError,
     listDone >>
drawVars ==
  << drawnCell, faceResponse, sourceImage, boxList, boxIndex, col, drawOps,
     tempFiles, shown, drawPc >>
calcVars == << metricVars, modelVars, splitVars, listVars, drawVars >>
extVars == << trainExtVars, podVars, calcVars >>
sessionVars ==
  << kernelVars, remoteVars, celebVars, trainVars, pipeVars, trainExtVars >>
\* per computation: everything outside it
exceptMetricVars ==
  << sessionVars, podVars, modelVars, splitVars, listVars, drawVars >>
exceptModelVars ==
  << sessionVars, podVars, metricVars, splitVars, listVars, drawVars >>
exceptSplitVars ==
  << sessionVars, podVars, metricVars, modelVars, listVars, drawVars >>
exceptListVars ==
  << sessionVars, podVars, metricVars, modelVars, splitVars, drawVars >>
exceptDrawVars ==
  << sessionVars, podVars, metricVars, modelVars, splitVars, listVars >>
vars ==
  << kernelVars, remoteVars, celebVars, trainVars, pipeVars, extVars >>

\* ------------------------------------------------------------ the kernel
Executed == {c \in Cells : outcome[c] # "-"}

\* c is the next cell of a top-to-bottom run that has not hit an error
InOrder(c) ==
  LET ord == CellOrder(notebook) IN
  \E i \in 1..Len(ord) :
    /\ ord[i] = c
    /\ \A j \in 1..(i - 1) : outcome[ord[j]] = "ok"

\* the operator starts cell c
Begin(c) ==
  /\ pc = "idle"
  /\ c \in Range(CellOrder(notebook))
  /\ outcome[c] = "-"
  /\ runAll' = (runAll /\ InOrder(c))

\* cell c ends with result r without having blocked
EndNow(c, r) ==
  /\ outcome' = [outcome EXCEPT ![c] = r]
  /\ pc' = "idle"

\* cell c blocks at position p
Block(c, p) ==
  /\ outcome' = [outcome EXCEPT ![c] = "running"]
  /\ pc' = p

\* a blocked cell c ends with result r
End(c, r) ==
  /\ outcome' = [outcome EXCEPT ![c] = r]
  /\ pc' = "idle"
  /\ UNCHANGED runAll

Call(op, id) == [op |-> op, JobId |-> id]

Issue(op, id) ==
  /\ outstanding' = outstanding \cup {Call(op, id)}
  /\ callCount' = [callCount EXCEPT ![op] = @ + 1]

Answer(op, id) ==
  /\ Call(op, id) \in outstanding
  /\ outstanding' = outstanding \ {Call(op, id)}
  /\ UNCHANGED callCount

\* --------------------------------------- celebrity-recognition notebook
SetupNames ==
  { "boto3", "display", "Image", "time", "os", "bucket", "awsRegion",
    "rekognition", "s3", "bucketName", "tempFolder" }

\* cells 1-6: imports, session, region, clients, bucketName, tempFolder
CellSetup ==
  /\ Begin("c_setup")
  /\ bound' = bound \cup SetupNames
  /\ EndNow("c_setup", "ok")
  /\ UNCHANGED << notebook, remoteVars, celebVars, trainVars, pipeVars >>
  /\ UNCHANGED extVars

CellImageName ==
  /\ Begin("c_imageName")
  /\ bound' = bound \cup {"imageName"}
  /\ EndNow("c_imageName", "ok")
  /\ UNCHANGED << notebook, remoteVars, celebVars, trainVars, pipeVars >>
  /\ UNCHANGED extVars

\* recognizeCelebritiesResponse = rekognition.recognize_celebrities(...)
CellRecognize ==
  /\ Begin("c_recognize")
  /\ IF {"rekognition", "bucketName", "imageName"} \subseteq bound
       THEN /\ Issue("recognize_celebrities", 0)
            /\ Block("c_recognize", "recognize_call")
       ELSE /\ EndNow("c_recognize", "NameError")
            /\ UNCHANGED remoteVars
  /\ UNCHANGED << notebook, bound, celebVars, trainVars, pipeVars >>
  /\ UNCHANGED extVars

\* the answer with a retry: a failed call is issued once more
CellRecognizeAnswerRetry ==
  /\ pc = "recognize_call"
  /\ \/ \E r \in RecognizeResponses :
          /\ Answer("recognize_celebrities", 0)
          /\ recognizeCelebritiesResponse' = r
          /\ bound' = bound \cup {"recognizeCelebritiesResponse"}
          /\ End("c_recognize", "ok")
     \/ /\ callCount["recognize_celebrities"] < 2
        /\ callCount' = [callCount EXCEPT !["recognize_celebrities"] = @ + 1]
        /\ UNCHANGED << outstanding, recognizeCelebritiesResponse, bound,
                        outcome, pc, runAll >>
     \/ /\ callCount["recognize_celebrities"] >= 2
        /\ Answer("recognize_celebrities", 0)
        /\ End("c_recognize", "InvalidS3ObjectException")
        /\ UNCHANGED << recognizeCelebritiesResponse, bound >>
  /\ UNCHANGED << notebook, boxes, startCelebrityRekognition, celebrityJobId,
                  getCelebrityRecognition, jobs, sleeps, delays, lateGets,
                  displayed, drawInvoked, files, trainVars, pipeVars >>
  /\ UNCHANGED extVars

\* the service answers recognize_celebrities: a response, or it raises
CellRecognizeAnswer ==
  /\ pc = "recognize_call"
  /\ Answer("recognize_celebrities", 0)
  /\ \/ \E r \in RecognizeResponses :
          /\ recognizeCelebritiesResponse' = r
          /\ bound' = bound \cup {"recognizeCelebritiesResponse"}
          /\ End("c_recognize", "ok")
     \/ /\ End("c_recognize", "InvalidS3ObjectException")
        /\ UNCHANGED << recognizeCelebritiesResponse, bound >>
  /\ UNCHANGED << notebook, boxes, startCelebrityRekognition, celebrityJobId,
                  getCelebrityRecognition, jobs, sleeps, delays, lateGets,
                  displayed, drawInvoked, files, trainVars, pipeVars >>
  /\ UNCHANGED extVars

\* def drawBoundingBoxes (sourceImage, boxes): ...
CellDefDraw ==
  /\ Begin("c_defDraw")
  /\ bound' = bound \cup {"drawBoundingBoxes"}
  /\ EndNow("c_defDraw", "ok")
  /\ UNCHANGED << notebook, remoteVars, celebVars, trainVars, pipeVars >>
  /\ UNCHANGED extVars

\* boxes.append((celebrity['Name'], celebrity['Face']['BoundingBox']))
ExtractBoxes(faces) ==
  [i \in 1..Len(faces) |-> << faces[i].Name, faces[i].BoundingBox >>]

\* the names drawBoundingBoxes reads up to its download_file call
DrawReads == {"tempFolder", "os", "s3", "bucketName"}

\* the extraction cell with a lenient read: a missing response counts as
\* one without faces
CellExtractLenient ==
  /\ Begin("c_extract")
  /\ boxes' = IF "recognizeCelebritiesResponse" \in bound
                THEN ExtractBoxes(recognizeCelebritiesResponse.CelebrityFaces)
                ELSE << >>
  /\ bound' = bound \cup {"boxes", "celebrities"}
  /\ IF {"drawBoundingBoxes", "imageName"} \subseteq bound
       THEN /\ drawInvoked' = drawInvoked \cup {"imageName"}
            /\ IF DrawReads \subseteq bound
                 THEN /\ Issue("download_file", 0)
                      /\ Block("c_extract", "extract_download")
                 ELSE /\ EndNow("c_extract", "NameError")
                      /\ UNCHANGED remoteVars
       ELSE /\ EndNow("c_extract", "NameError")
            /\ UNCHANGED << remoteVars, drawInvoked >>
  /\ UNCHANGED << notebook, recognizeCelebritiesResponse,
                  startCelebrityRekognition, celebrityJobId,
                  getCelebrityRecognition, jobs, sleeps, delays, lateGets,
                  displayed, files, trainVars, pipeVars >>
  /\ UNCHANGED extVars

\* boxes = []; celebrities = recognizeCelebritiesResponse['CelebrityFaces'];
\* the append loop; drawBoundingBoxes(imageName, boxes) up to download_file
CellExtract ==
  /\ Begin("c_extract")
  /\ IF "recognizeCelebritiesResponse" \notin bound
       THEN /\ boxes' = << >>
            /\ bound' = bound \cup {"boxes"}
            /\ EndNow("c_extract", "NameError")
            /\ UNCHANGED << remoteVars, drawInvoked >>
       ELSE /\ boxes' = ExtractBoxes(recognizeCelebritiesResponse.CelebrityFaces)
            /\ bound' = bound \cup {"boxes", "celebrities"}
            /\ IF {"drawBoundingBoxes", "imageName"} \subseteq bound
                 THEN /\ drawInvoked' = drawInvoked \cup {"imageName"}
                      /\ IF DrawReads \subseteq bound
                           THEN /\ Issue("download_file", 0)
                                /\ Block("c_extract", "extract_download")
                           ELSE /\ EndNow("c_extract", "NameError")
                                /\ UNCHANGED remoteVars
                 ELSE /\ EndNow("c_extract", "NameError")
                      /\ UNCHANGED << remoteVars, drawInvoked >>
  /\ UNCHANGED << notebook, recognizeCelebritiesResponse,
                  startCelebrityRekognition, celebrityJobId,
                  getCelebrityRecognition, jobs, sleeps, delays, lateGets,
                  displayed, files, trainVars, pipeVars >>
  /\ UNCHANGED extVars

\* download_file answers: the image is opened, drawn on, saved and shown,
\* or the download raises
CellExtractAnswer ==
  /\ pc = "extract_download"
  /\ Answer("download_file", 0)
  /\ \/ /\ files' = files \cup {"imageName"}
        /\ End("c_extract", "ok")
     \/ /\ End("c_extract", "ClientError")
        /\ UNCHANGED files
  /\ UNCHANGED << notebook, bound, recognizeCelebritiesResponse, boxes,
                  startCelebrityRekognition, celebrityJobId,
                  getCelebrityRecognition, jobs, sleeps, delays, lateGets,
                  displayed, drawInvoked, trainVars, pipeVars >>
  /\ UNCHANGED extVars

CellVideoName ==
  /\ Begin("c_videoName")
  /\ bound' = bound \cup {"videoName"}
  /\ EndNow("c_videoName", "ok")
  /\ UNCHANGED << notebook, remoteVars, celebVars, trainVars, pipeVars >>
  /\ UNCHANGED extVars

\* startCelebrityRekognition = rekognition.start_celebrity_recognition(...)
CellStart ==
  /\ Begin("c_start")
  /\ IF {"rekognition", "bucketName", "videoName"} \subseteq bound
       THEN /\ Issue("start_celebrity_recognition", 0)
            /\ Block("c_start", "start_call")
       ELSE /\ EndNow("c_start", "NameError")
            /\ UNCHANGED remoteVars
  /\ UNCHANGED << notebook, bound, celebVars, trainVars, pipeVars >>
  /\ UNCHANGED extVars

\* a job id written into the cell instead of read from the response
JobIdOfFixed(response) == 1

\* celebrityJobId = startCelebrityRekognition['JobId']
JobIdOf(response) == response.JobId

\* the service answers start_celebrity_recognition: it creates a job and
\* returns its id, or it raises
CellStartAnswer ==
  /\ pc = "start_call"
  /\ Answer("start_celebrity_recognition", 0)
  /\ \/ \E id \in JobIds \ DOMAIN jobs :
          /\ jobs' = [j \in DOMAIN jobs \cup {id} |->
                        IF j = id THEN "IN_PROGRESS" ELSE jobs[j]]
          /\ startCelebrityRekognition' = [JobId |-> id]
          /\ celebrityJobId' = JobIdOf(startCelebrityRekognition')
          /\ bound' = bound \cup {"startCelebrityRekognition", "celebrityJobId"}
          /\ End("c_start", "ok")
     \/ /\ End("c_start", "ClientError")
        /\ UNCHANGED << jobs, startCelebrityRekognition, celebrityJobId,
                        bound >>
  /\ UNCHANGED << notebook, recognizeCelebritiesResponse, boxes,
                  getCelebrityRecognition, sleeps, delays, lateGets,
                  displayed, drawInvoked, files, trainVars, pipeVars >>
  /\ UNCHANGED extVars

\* the video job leaves IN_PROGRESS
VideoJobFinishes ==
  /\ \E j \in DOMAIN jobs, s \in {"SUCCEEDED", "FAILED"} :
       /\ jobs[j] = "IN_PROGRESS"
       /\ jobs' = [jobs EXCEPT ![j] = s]
  /\ UNCHANGED << kernelVars, remoteVars, recognizeCelebritiesResponse,
                  boxes, startCelebrityRekognition, celebrityJobId,
                  getCelebrityRecognition, sleeps, delays, lateGets,
                  displayed, drawInvoked, files, trainVars, pipeVars >>
  /\ UNCHANGED extVars

\* getCelebrityRecognition = rekognition.get_celebrity_recognition(
\*     JobId=celebrityJobId, SortBy='TIMESTAMP')          (before the loop)
CellWait ==
  /\ Begin("c_wait")
  /\ IF {"rekognition", "celebrityJobId"} \subseteq bound
       THEN /\ Issue("get_celebrity_recognition", celebrityJobId)
            /\ Block("c_wait", "wait_call")
       ELSE /\ EndNow("c_wait", "NameError")
            /\ UNCHANGED remoteVars
  /\ UNCHANGED << notebook, bound, celebVars, trainVars, pipeVars >>
  /\ UNCHANGED extVars

\* the service answers get_celebrity_recognition with the job's status, or
\* it raises; a job stays IN_PROGRESS for at most MaxPolls status calls
WaitAnswer ==
  /\ pc = "wait_call"
  /\ \E c \in outstanding :
       /\ c.op = "get_celebrity_recognition"
       /\ Answer(c.op, c.JobId)
       /\ \/ /\ c.JobId \in DOMAIN jobs
             /\ jobs[c.JobId] = "IN_PROGRESS" => sleeps < MaxPolls
             /\ getCelebrityRecognition' = [JobStatus |-> jobs[c.JobId]]
             /\ bound' = bound \cup {"getCelebrityRecognition"}
             /\ pc' = "wait_test"
             /\ UNCHANGED outcome
          \/ /\ outcome' = [outcome EXCEPT !["c_wait"] = "ClientError"]
             /\ pc' = "idle"
             /\ UNCHANGED << getCelebrityRecognition, bound >>
  /\ UNCHANGED << notebook, runAll, recognizeCelebritiesResponse, boxes,
                  startCelebrityRekognition, celebrityJobId, jobs, sleeps,
                  delays, lateGets, displayed, drawInvoked, files,
                  trainVars, pipeVars >>
  /\ UNCHANGED extVars

\* a loop that polls until the job has succeeded
KeepPollingUntilSucceeded(response) == response.JobStatus # "SUCCEEDED"

\* while(getCelebrityRecognition['JobStatus'] == 'IN_PROGRESS')
KeepPolling(response) == response.JobStatus = "IN_PROGRESS"

\* a delay that grows with the iteration
SleepDelayBackoff(n) == PollSeconds * (n + 1)

\* time.sleep(5), in the n-th iteration counted from 0
SleepDelay(n) == PollSeconds

\* the loop condition holds: time.sleep(5)
WaitSleep ==
  /\ pc = "wait_test"
  /\ KeepPolling(getCelebrityRecognition)
  /\ sleeps < MaxPolls
  /\ delays' = delays \cup {SleepDelay(sleeps)}
  /\ sleeps' = sleeps + 1
  /\ pc' = "wait_slept"
  /\ UNCHANGED << notebook, outcome, bound, runAll, remoteVars,
                  recognizeCelebritiesResponse, boxes,
                  startCelebrityRekognition, celebrityJobId,
                  getCelebrityRecognition, jobs, lateGets, displayed,
                  drawInvoked, files, trainVars, pipeVars >>
  /\ UNCHANGED extVars

\* print('.', end=''); the next get_celebrity_recognition call
WaitPoll ==
  /\ pc = "wait_slept"
  /\ Issue("get_celebrity_recognition", celebrityJobId)
  /\ lateGets' = IF getCelebrityRecognition.JobStatus # "IN_PROGRESS"
                   THEN lateGets + 1 ELSE lateGets
  /\ pc' = "wait_call"
  /\ UNCHANGED << notebook, outcome, bound, runAll,
                  recognizeCelebritiesResponse, boxes,
                  startCelebrityRekognition, celebrityJobId,
                  getCelebrityRecognition, jobs, sleeps, delays, displayed,
                  drawInvoked, files, trainVars, pipeVars >>
  /\ UNCHANGED extVars

\* a mutant of WaitExit: the loop gives up after two sleeps
WaitExitLimited ==
  /\ pc = "wait_test"
  /\ \/ ~KeepPolling(getCelebrityRecognition)
     \/ sleeps >= 2
  /\ displayed' = getCelebrityRecognition.JobStatus
  /\ End("c_wait", "ok")
  /\ UNCHANGED << notebook, bound, remoteVars,
                  recognizeCelebritiesResponse, boxes,
                  startCelebrityRekognition, celebrityJobId,
                  getCelebrityRecognition, jobs, sleeps, delays, lateGets,
                  drawInvoked, files, trainVars, pipeVars >>
  /\ UNCHANGED extVars

\* the loop condition fails: display(getCelebrityRecognition['JobStatus'])
WaitExit ==
  /\ pc = "wait_test"
  /\ ~KeepPolling(getCelebrityRecognition)
  /\ displayed' = getCelebrityRecognition.JobStatus
  /\ End("c_wait", "ok")
  /\ UNCHANGED << notebook, bound, remoteVars,
                  recognizeCelebritiesResponse, boxes,
                  startCelebrityRekognition, celebrityJobId,
                  getCelebrityRecognition, jobs, sleeps, delays, lateGets,
                  drawInvoked, files, trainVars, pipeVars >>
  /\ UNCHANGED extVars

\* a mutant of CellList: the result is listed only for a job that succeeded
CellListChecked ==
  /\ Begin("c_list")
  /\ bound' = bound \cup {"theCelebs", "strDetail", "strOverall"}
  /\ IF "getCelebrityRecognition" \notin bound
       THEN /\ listError' = "NameError"
            /\ EndNow("c_list", "NameError")
            /\ UNCHANGED listDone
       ELSE IF getCelebrityRecognition.JobStatus = "SUCCEEDED"
              THEN /\ listDone' = TRUE
                   /\ EndNow("c_list", "ok")
                   /\ UNCHANGED listError
              ELSE /\ EndNow("c_list", "ok")
                   /\ UNCHANGED << listError, listDone >>
  /\ UNCHANGED << notebook, remoteVars, celebVars, trainVars, pipeVars >>
  /\ UNCHANGED << trainExtVars, podVars, metricVars, modelVars, splitVars,
                  drawVars, celebrities, listed, theCelebs, strDetail,
                  strOverall >>

\* the listing cell: for celebrity in getCelebrityRecognition['Celebrities']
\* ...; display(HTML(strOverall)).  The response of a job that has not
\* succeeded may come without 'Celebrities'; the loop itself is ListEntry
CellList ==
  /\ Begin("c_list")
  /\ bound' = bound \cup {"theCelebs", "strDetail", "strOverall"}
  /\ IF "getCelebrityRecognition" \notin bound
       THEN /\ listError' = "NameError"
            /\ EndNow("c_list", "NameError")
            /\ UNCHANGED listDone
       ELSE \/ /\ listDone' = TRUE
               /\ EndNow("c_list", "ok")
               /\ UNCHANGED listError
            \/ /\ getCelebrityRecognition.JobStatus # "SUCCEEDED"
               /\ listError' = "KeyError"
               /\ EndNow("c_list", "KeyError")
               /\ UNCHANGED listDone
  /\ UNCHANGED << notebook, remoteVars, celebVars, trainVars, pipeVars >>
  /\ UNCHANGED << trainExtVars, podVars, metricVars, modelVars, splitVars,
                  drawVars, celebrities, listed, theCelebs, strDetail,
                  strOverall >>

CelebNext ==
  \/ CellSetup
  \/ CellImageName
  \/ CellRecognize
  \/ CellRecognizeAnswer
  \/ CellDefDraw
  \/ CellExtract
  \/ CellExtractAnswer
  \/ CellVideoName
  \/ CellStart
  \/ CellStartAnswer
  \/ VideoJobFinishes
  \/ CellWait
  \/ WaitAnswer
  \/ WaitSleep
  \/ WaitPoll
  \/ WaitExit

\* ------------------------------------------ training-submission notebook
TrainSetupNames ==
  { "sess", "bucket", "role", "region", "sm", "s3_input_train_data",
    "metrics_definitions", "epochs", "learning_rate", "dataset_variant",
    "embedding_dimension", "enable_tensorboard", "train_instance_count",
    "train_instance_type" }

\* the characters of the class [0-9\.]
NumberChars == {"0", "1", "2", "3", "4", "5", "6", "7", "8", "9", "."}

\* the literal text of the Regex of metrics_definitions[1]
RegexLiteral1 ==
  << "r", "o", "o", "t", "_", "m", "e", "a", "n", "_", "s", "q", "u", "a",
     "r", "e", "d", "_", "e", "r", "r", "o", "r", ":", " " >>

\* the literal text of the Regex of metrics_definitions[2]
RegexLiteral2 ==
  << "f", "a", "c", "t", "o", "r", "i", "z", "e", "d", "_", "t", "o", "p",
     "_", "k", "/", "t", "o", "p", "_", "1", "0", "_", "c", "a", "t", "e",
     "g", "o", "r", "i", "c", "a", "l", "_", "a", "c", "c", "u", "r", "a",
     "c", "y", ":", " " >>

\* the literal text of the Regex of metrics_definitions[3]
RegexLiteral3 ==
  << "f", "a", "c", "t", "o", "r", "i", "z", "e", "d", "_", "t", "o", "p",
     "_", "k", "/", "t", "o", "p", "_", "5", "0", "_", "c", "a", "t", "e",
     "g", "o", "r", "i", "c", "a", "l", "_", "a", "c", "c", "u", "r", "a",
     "c", "y", ":", " " >>

\* the literal text of the Regex of metrics_definitions[4]
RegexLiteral4 ==
  << "f", "a", "c", "t", "o", "r", "i", "z", "e", "d", "_", "t", "o", "p",
     "_", "k", "/", "t", "o", "p", "_", "1", "0", "0", "_", "c", "a", "t",
     "e", "g", "o", "r", "i", "c", "a", "l", "_", "a", "c", "c", "u", "r",
     "a", "c", "y", ":", " " >>

\* metrics_definitions: each Regex is a literal text followed by the group
\* ([0-9\.]+), kept as the literal's characters and the group's class
metrics_definitions ==
  <<
     [ Name |-> "root_mean_squared_error",
       Regex |-> [literal |-> RegexLiteral1, group |-> NumberChars] ],
     [ Name |-> "top_10_categorical_accuracy",
       Regex |-> [literal |-> RegexLiteral2, group |-> NumberChars] ],
     [ Name |-> "top_50_categorical_accuracy",
       Regex |-> [literal |-> RegexLiteral3, group |-> NumberChars] ],
     [ Name |-> "top_100_categorical_accuracy",
       Regex |-> [literal |-> RegexLiteral4, group |-> NumberChars] ]
  >>

\* the hyperparameters argument of TensorFlow(...), with the values the
\* setup cell bound
EstimatorHyperparameters ==
  [ epochs |-> 10, learning_rate |-> "0.5", dataset_variant |-> "100k",
    embedding_dimension |-> 32, enable_tensorboard |-> TRUE ]

\* before estimator = TensorFlow(...) has run
NoEstimator == [hyperparameters |-> << >>, metric_definitions |-> << >>]

\* session and clients, the training input, metrics_definitions and the
\* hyper-parameter variables
TrainSetup ==
  /\ Begin("t_setup")
  /\ bound' = bound \cup TrainSetupNames
  /\ EndNow("t_setup", "ok")
  /\ UNCHANGED << notebook, remoteVars, celebVars, trainVars, pipeVars >>
  /\ UNCHANGED extVars

\* estimator = TensorFlow(...)
TrainEstimator ==
  /\ Begin("t_estimator")
  /\ IF { "role", "train_instance_count", "train_instance_type", "epochs",
          "learning_rate", "dataset_variant", "embedding_dimension",
          "enable_tensorboard", "metrics_definitions" } \subseteq bound
       THEN /\ bound' = bound \cup {"estimator"}
            /\ estimatorConfig' =
                 [ hyperparameters |-> EstimatorHyperparameters,
                   metric_definitions |-> metrics_definitions ]
            /\ EndNow("t_estimator", "ok")
       ELSE /\ EndNow("t_estimator", "NameError")
            /\ UNCHANGED << bound, estimatorConfig >>
  /\ UNCHANGED << notebook, remoteVars, celebVars, trainVars, pipeVars >>
  /\ UNCHANGED << store, stored, queriedMetrics, podVars, calcVars >>

\* timestamp = int(time.time()); Experiment.create(...)
TrainExperiment ==
  /\ Begin("t_experiment")
  /\ bound' = bound \cup {"time", "timestamp"}
  /\ IF "sm" \in bound
       THEN /\ Issue("create_experiment", 0)
            /\ Block("t_experiment", "experiment_call")
       ELSE /\ EndNow("t_experiment", "NameError")
            /\ UNCHANGED remoteVars
  /\ UNCHANGED << notebook, celebVars, trainVars, pipeVars >>
  /\ UNCHANGED extVars

TrainExperimentAnswer ==
  /\ pc = "experiment_call"
  /\ Answer("create_experiment", 0)
  /\ \/ /\ tracking' = tracking \cup {"experiment"}
        /\ bound' = bound \cup { "recommender_experiment",
                                 "recommender_experiment_name" }
        /\ End("t_experiment", "ok")
     \/ /\ End("t_experiment", "ClientError")
        /\ UNCHANGED << tracking, bound >>
  /\ UNCHANGED << notebook, celebVars, trainJob, latestJob, modelArchive,
                  modelDir, pipeVars >>
  /\ UNCHANGED extVars

\* trial_name = 'trial-{}-{}-{}-{}'.format(...); Trial.create(...)
TrainTrial ==
  /\ Begin("t_trial")
  /\ IF {"epochs", "dataset_variant", "embedding_dimension"} \subseteq bound
       THEN /\ bound' = bound \cup {"time", "timestamp", "trial_name"}
            /\ IF { "recommender_experiment_name", "sm" } \subseteq bound
                 THEN /\ Issue("create_trial", 0)
                      /\ Block("t_trial", "trial_call")
                 ELSE /\ EndNow("t_trial", "NameError")
                      /\ UNCHANGED remoteVars
       ELSE /\ bound' = bound \cup {"time", "timestamp"}
            /\ EndNow("t_trial", "NameError")
            /\ UNCHANGED remoteVars
  /\ UNCHANGED << notebook, celebVars, trainVars, pipeVars >>
  /\ UNCHANGED extVars

TrainTrialAnswer ==
  /\ pc = "trial_call"
  /\ Answer("create_trial", 0)
  /\ \/ /\ tracking' = tracking \cup {"trial"}
        /\ bound' = bound \cup {"trial"}
        /\ End("t_trial", "ok")
     \/ /\ End("t_trial", "ClientError")
        /\ UNCHANGED << tracking, bound >>
  /\ UNCHANGED << notebook, celebVars, trainJob, latestJob, modelArchive,
                  modelDir, pipeVars >>
  /\ UNCHANGED extVars

\* recommender_experiment_config = {...}
TrainExpConfig ==
  /\ Begin("t_expConfig")
  /\ IF {"recommender_experiment_name", "trial"} \subseteq bound
       THEN /\ bound' = bound \cup {"recommender_experiment_config"}
            /\ EndNow("t_expConfig", "ok")
       ELSE /\ EndNow("t_expConfig", "NameError")
            /\ UNCHANGED bound
  /\ UNCHANGED << notebook, remoteVars, celebVars, trainVars, pipeVars >>
  /\ UNCHANGED extVars

\* estimator.fit(inputs=..., experiment_config=..., wait=False)
TrainFit ==
  /\ Begin("t_fit")
  /\ IF { "estimator", "s3_input_train_data",
          "recommender_experiment_config" } \subseteq bound
       THEN /\ Issue("create_training_job", 0)
            /\ Block("t_fit", "fit_call")
       ELSE /\ EndNow("t_fit", "NameError")
            /\ UNCHANGED remoteVars
  /\ UNCHANGED << notebook, bound, celebVars, trainVars, pipeVars >>
  /\ UNCHANGED extVars

\* the job is created and fit returns without waiting for it, or the
\* submission raises
TrainFitAnswer ==
  /\ pc = "fit_call"
  /\ Answer("create_training_job", 0)
  /\ \/ /\ trainJob' = "InProgress"
        /\ latestJob' = TRUE
        /\ End("t_fit", "ok")
     \/ /\ End("t_fit", "ClientError")
        /\ UNCHANGED << trainJob, latestJob >>
  /\ UNCHANGED << notebook, bound, celebVars, modelArchive, modelDir,
                  tracking, pipeVars >>
  /\ UNCHANGED extVars

\* the training job reaches a terminal state
TrainJobFinishes ==
  /\ trainJob = "InProgress"
  /\ trainJob' \in {"Completed", "Failed"}
  /\ UNCHANGED << kernelVars, remoteVars, celebVars, latestJob,
                  modelArchive, modelDir, tracking, pipeVars >>
  /\ UNCHANGED extVars

\* recommender_training_job_name = estimator.latest_training_job.name
TrainJobName ==
  /\ Begin("t_jobName")
  /\ IF "estimator" \notin bound
       THEN /\ EndNow("t_jobName", "NameError")
            /\ UNCHANGED bound
       ELSE IF ~latestJob
         THEN /\ EndNow("t_jobName", "AttributeError")
              /\ UNCHANGED bound
         ELSE /\ bound' = bound \cup {"recommender_training_job_name"}
              /\ EndNow("t_jobName", "ok")
  /\ UNCHANGED << notebook, remoteVars, celebVars, trainVars, pipeVars >>
  /\ UNCHANGED extVars

\* the cell stops the job instead of waiting for it
TrainWaitOpStop == "stop_training_job"

\* estimator.latest_training_job.wait(logs=False)
TrainWaitOp == "wait_for_job"

TrainWait ==
  /\ Begin("t_wait")
  /\ IF "estimator" \notin bound
       THEN /\ EndNow("t_wait", "NameError")
            /\ UNCHANGED remoteVars
       ELSE IF ~latestJob
         THEN /\ EndNow("t_wait", "AttributeError")
              /\ UNCHANGED remoteVars
         ELSE /\ Issue(TrainWaitOp, 0)
              /\ Block("t_wait", "trainwait_call")
  /\ UNCHANGED << notebook, bound, celebVars, trainVars, pipeVars >>
  /\ UNCHANGED extVars

\* wait returns once the job is terminal and raises if the job failed; a
\* stop request stops a job that is in progress
TrainWaitAnswer ==
  /\ pc = "trainwait_call"
  /\ \E c \in outstanding :
       /\ Answer(c.op, c.JobId)
       /\ IF c.op = "stop_training_job"
            THEN /\ trainJob' = IF trainJob = "InProgress"
                                  THEN "Stopped" ELSE trainJob
                 /\ End("t_wait", "ok")
            ELSE /\ trainJob # "InProgress"
                 /\ End("t_wait", IF trainJob = "Failed"
                                    THEN "UnexpectedStatusException"
                                    ELSE "ok")
                 /\ UNCHANGED trainJob
  /\ UNCHANGED << notebook, bound, celebVars, latestJob, modelArchive,
                  modelDir, tracking, pipeVars >>
  /\ UNCHANGED extVars

\* !aws s3 cp s3://$bucket/$recommender_training_job_name/output/model.tar.gz
\* a shell command: it copies the archive if the key exists and never raises
TrainDownload ==
  /\ Begin("t_download")
  /\ modelArchive' = /\ {"bucket", "recommender_training_job_name"}
                          \subseteq bound
                     /\ trainJob = "Completed"
  /\ EndNow("t_download", "ok")
  /\ UNCHANGED << notebook, bound, remoteVars, celebVars, trainJob,
                  latestJob, modelDir, tracking, pipeVars >>
  /\ UNCHANGED extVars

\* !mkdir -p ./model/ ; !tar -xvzf ./model.tar.gz -C ./model/
TrainUntar ==
  /\ Begin("t_untar")
  /\ modelDir' = modelArchive
  /\ EndNow("t_untar", "ok")
  /\ UNCHANGED << notebook, bound, remoteVars, celebVars, trainJob,
                  latestJob, modelArchive, tracking, pipeVars >>
  /\ UNCHANGED extVars

\* metric_names of ExperimentAnalytics(...)
AnalyticsMetricNamesDocumented ==
  << "root_mean_squared_error",
     "factorized_top_k/top_10_categorical_accuracy",
     "factorized_top_k/top_50_categorical_accuracy",
     "factorized_top_k/top_100_categorical_accuracy" >>

AnalyticsMetricNames ==
  << "root_mean_squared_error", "top_10_categorical_accuracy",
     "top_50_categorical_accuracy", "top_100_categorical_accuracy" >>

\* lineage_table = ExperimentAnalytics(...); lineage_table.dataframe()
TrainAnalytics ==
  /\ Begin("t_analytics")
  /\ bound' = bound \cup {"ExperimentAnalytics"}
  /\ IF {"sess", "recommender_experiment_name"} \subseteq bound
       THEN /\ queriedMetrics' = AnalyticsMetricNames
            /\ Issue("search", 0)
            /\ Block("t_analytics", "analytics_call")
       ELSE /\ EndNow("t_analytics", "NameError")
            /\ UNCHANGED << remoteVars, queriedMetrics >>
  /\ UNCHANGED << notebook, celebVars, trainVars, pipeVars >>
  /\ UNCHANGED << estimatorConfig, store, stored, podVars, calcVars >>

TrainAnalyticsAnswer ==
  /\ pc = "analytics_call"
  /\ Answer("search", 0)
  /\ \/ /\ bound' = bound \cup {"lineage_table", "lineage_df"}
        /\ End("t_analytics", "ok")
     \/ /\ bound' = bound \cup {"lineage_table"}
        /\ End("t_analytics", "ClientError")
  /\ UNCHANGED << notebook, celebVars, trainVars, pipeVars >>
  /\ UNCHANGED extVars

\* the argument of %store
StoredNamesWithTrial == {"recommender_training_job_name", "trial_name"}

StoredNames == {"recommender_training_job_name"}

\* %store recommender_training_job_name: the value is written to the
\* profile's store on disk, where later sessions find it
TrainStore ==
  /\ Begin("t_store")
  /\ IF StoredNames \subseteq bound
       THEN /\ store' = store \cup StoredNames
            /\ stored' = stored \cup StoredNames
            /\ EndNow("t_store", "ok")
       ELSE /\ EndNow("t_store", "UsageError")
            /\ UNCHANGED << store, stored >>
  /\ UNCHANGED << notebook, bound, remoteVars, celebVars, trainVars,
                  pipeVars >>
  /\ UNCHANGED << estimatorConfig, queriedMetrics, podVars, calcVars >>

TrainNext ==
  \/ TrainSetup
  \/ TrainEstimator
  \/ TrainExperiment
  \/ TrainExperimentAnswer
  \/ TrainTrial
  \/ TrainTrialAnswer
  \/ TrainExpConfig
  \/ TrainFit
  \/ TrainFitAnswer
  \/ TrainJobFinishes
  \/ TrainJobName
  \/ TrainWait
  \/ TrainWaitAnswer
  \/ TrainDownload
  \/ TrainUntar
  \/ TrainAnalytics
  \/ TrainAnalyticsAnswer
  \/ TrainStore

\* ------------------------------------------------------ pipeline notebook
Regions == {"us-west-1", "us-west-2", "us-east-1", "us-east-2"}

\* AWS_REGION from the instance metadata, AWS_ACCOUNT_ID, S3_BUCKET
PipeRegion ==
  /\ Begin("p_region")
  /\ awsRegion' \in Regions
  /\ bound' = bound \cup {"boto3", "AWS_REGION", "AWS_ACCOUNT_ID", "S3_BUCKET"}
  /\ EndNow("p_region", "ok")
  /\ UNCHANGED << notebook, remoteVars, celebVars, trainVars, ecrRegistry,
                  pipelineOps, zipWritten >>
  /\ UNCHANGED extVars

\* import kfp; from kfp import components, dsl; use_aws_secret
PipeImports ==
  /\ Begin("p_imports")
  /\ bound' = bound \cup {"kfp", "components", "dsl", "use_aws_secret"}
  /\ EndNow("p_imports", "ok")
  /\ UNCHANGED << notebook, remoteVars, celebVars, trainVars, pipeVars >>
  /\ UNCHANGED extVars

ComponentOps ==
  { "sagemaker_hpo_op", "sagemaker_process_op", "sagemaker_train_op",
    "sagemaker_model_op", "sagemaker_deploy_op" }

\* sagemaker_*_op = components.load_component_from_url(...)
PipeLoadOps ==
  /\ Begin("p_loadOps")
  /\ IF "components" \in bound
       THEN /\ bound' = bound \cup ComponentOps
            /\ EndNow("p_loadOps", "ok")
       ELSE /\ EndNow("p_loadOps", "NameError")
            /\ UNCHANGED bound
  /\ UNCHANGED << notebook, remoteVars, celebVars, trainVars, pipeVars >>
  /\ UNCHANGED extVars

\* a mutant of PipeConfig: the other region checks are implemented
PipeConfigEveryRegion ==
  /\ Begin("p_config")
  /\ IF {"AWS_ACCOUNT_ID", "S3_BUCKET", "AWS_REGION"} \subseteq bound
       THEN /\ bound' = bound \cup {"SAGEMAKER_ROLE_ARN", "S3_PIPELINE_PATH",
                                    "AWS_ECR_REGISTRY"}
            /\ ecrRegistry' =
                 CASE awsRegion = "us-east-1" ->
                        "382416733822.dkr.ecr.us-east-1.amazonaws.com"
                   [] awsRegion = "us-west-2" ->
                        "174872318107.dkr.ecr.us-west-2.amazonaws.com"
                   [] awsRegion = "us-west-1" ->
                        "632365934929.dkr.ecr.us-west-1.amazonaws.com"
                   [] OTHER ->
                        "404615174143.dkr.ecr.us-east-2.amazonaws.com"
            /\ EndNow("p_config", "ok")
       ELSE /\ EndNow("p_config", "NameError")
            /\ UNCHANGED << bound, ecrRegistry >>
  /\ UNCHANGED << notebook, remoteVars, celebVars, trainVars, awsRegion,
                  pipelineOps, zipWritten >>
  /\ UNCHANGED extVars

\* SAGEMAKER_ROLE_ARN, S3_PIPELINE_PATH and, for two regions, AWS_ECR_REGISTRY
PipeConfig ==
  /\ Begin("p_config")
  /\ IF {"AWS_ACCOUNT_ID", "S3_BUCKET", "AWS_REGION"} \subseteq bound
       THEN /\ bound' = bound \cup {"SAGEMAKER_ROLE_ARN", "S3_PIPELINE_PATH"}
                   \cup (IF awsRegion \in {"us-west-2", "us-east-1"}
                           THEN {"AWS_ECR_REGISTRY"} ELSE {})
            /\ ecrRegistry' =
                 IF awsRegion = "us-east-1"
                   THEN "382416733822.dkr.ecr.us-east-1.amazonaws.com"
                   ELSE IF awsRegion = "us-west-2"
                     THEN "174872318107.dkr.ecr.us-west-2.amazonaws.com"
                     ELSE ecrRegistry
            /\ EndNow("p_config", "ok")
       ELSE /\ EndNow("p_config", "NameError")
            /\ UNCHANGED << bound, ecrRegistry >>
  /\ UNCHANGED << notebook, remoteVars, celebVars, trainVars, awsRegion,
                  pipelineOps, zipWritten >>
  /\ UNCHANGED extVars

\* processing_code_s3_uri = 's3://{}/processing_code/...'.format(S3_BUCKET)
PipeProcessingCode ==
  /\ Begin("p_processingCode")
  /\ IF "S3_BUCKET" \in bound
       THEN /\ bound' = bound \cup {"processing_code_s3_uri"}
            /\ EndNow("p_processingCode", "ok")
       ELSE /\ EndNow("p_processingCode", "NameError")
            /\ UNCHANGED bound
  /\ UNCHANGED << notebook, remoteVars, celebVars, trainVars, pipeVars >>
  /\ UNCHANGED extVars

\* !tar -cvzf sourcedir.tar.gz ; training_code_s3_uri = ...
PipeTrainingCode ==
  /\ Begin("p_trainingCode")
  /\ IF "S3_BUCKET" \in bound
       THEN /\ bound' = bound \cup {"training_code_s3_uri"}
            /\ EndNow("p_trainingCode", "ok")
       ELSE /\ EndNow("p_trainingCode", "NameError")
            /\ UNCHANGED bound
  /\ UNCHANGED << notebook, remoteVars, celebVars, trainVars, pipeVars >>
  /\ UNCHANGED extVars

\* def processing_input, processing_output, training_input
PipeHelpers ==
  /\ Begin("p_helpers")
  /\ bound' = bound \cup {"processing_input", "processing_output",
                          "training_input"}
  /\ EndNow("p_helpers", "ok")
  /\ UNCHANGED << notebook, remoteVars, celebVars, trainVars, pipeVars >>
  /\ UNCHANGED extVars

\* @dsl.pipeline(...) def mnist_classification(role_arn=SAGEMAKER_ROLE_ARN,
\*                                             bucket_name=S3_BUCKET)
PipeDefPipeline ==
  /\ Begin("p_defPipeline")
  /\ IF {"dsl", "SAGEMAKER_ROLE_ARN", "S3_BUCKET"} \subseteq bound
       THEN /\ bound' = bound \cup {"mnist_classification"}
            /\ EndNow("p_defPipeline", "ok")
       ELSE /\ EndNow("p_defPipeline", "NameError")
            /\ UNCHANGED bound
  /\ UNCHANGED << notebook, remoteVars, celebVars, trainVars, pipeVars >>
  /\ UNCHANGED extVars

\* the parameters and the local assignments that open the function body
PipelineLocals ==
  { "role_arn", "bucket_name", "region", "processing_instance_type",
    "processing_instance_count", "training_instance_type",
    "training_instance_count", "deploy_instance_type",
    "deploy_instance_count", "processing_image", "training_image" }

\* the statements of the body after those assignments: the name each one
\* binds, the names it reads, the step it instantiates and the steps that
\* step is declared to run after
PipelineBody ==
  << [ binds |-> "process", step |-> "process", after |-> {},
       reads |-> { "sagemaker_process_op", "role_arn", "region",
                   "processing_image", "instance_type", "processing_input",
                   "processing_code_s3_uri", "processing_output",
                   "bucket_name" } ],
     [ binds |-> "train_channels", step |-> "-", after |-> {},
       reads |-> {"training_input", "bucket_name"} ],
     [ binds |-> "train_output_location", step |-> "-", after |-> {},
       reads |-> {"bucket_name"} ],
     [ binds |-> "training", step |-> "training", after |-> {"process"},
       reads |-> { "sagemaker_train_op", "region", "training_image",
                   "train_channels", "instance_type",
                   "train_output_location", "role_arn", "process" } ],
     [ binds |-> "create_model", step |-> "create_model",
       after |-> {"training"},
       reads |-> { "sagemaker_model_op", "region", "training",
                   "serving_image", "role_arn" } ],
     [ binds |-> "-", step |-> "deploy", after |-> {"create_model"},
       reads |-> { "sagemaker_deploy_op", "region", "create_model",
                   "deploy_instance_type" } ] >>

RECURSIVE EvalBody(_, _, _)
\* evaluates the statements from the i-th on: a statement that reads a name
\* that is not visible raises NameError and ends the evaluation
EvalBody(i, visible, steps) ==
  IF i > Len(PipelineBody)
    THEN [steps |-> steps, error |-> FALSE]
    ELSE LET st == PipelineBody[i] IN
         IF st.reads \subseteq visible
           THEN EvalBody(i + 1, visible \cup {st.binds},
                         IF st.step = "-" THEN steps
                         ELSE Append(steps, [name |-> st.step,
                                             after |-> st.after]))
           ELSE [steps |-> steps, error |-> TRUE]

\* kfp.compiler.Compiler().compile(mnist_classification, '...zip')
PipeCompile ==
  /\ Begin("p_compile")
  /\ IF {"kfp", "mnist_classification"} \subseteq bound
       THEN LET r == EvalBody(1, bound \cup PipelineLocals, << >>) IN
            /\ pipelineOps' = r.steps
            /\ zipWritten' = ~r.error
            /\ EndNow("p_compile", IF r.error THEN "NameError" ELSE "ok")
       ELSE /\ EndNow("p_compile", "NameError")
            /\ UNCHANGED << pipelineOps, zipWritten >>
  /\ UNCHANGED << notebook, bound, remoteVars, celebVars, trainVars,
                  awsRegion, ecrRegistry >>
  /\ UNCHANGED extVars

\* client = kfp.Client(); aws_experiment = client.create_experiment('aws')
PipeRun ==
  /\ Begin("p_run")
  /\ IF "kfp" \in bound
       THEN /\ bound' = bound \cup {"client"}
            /\ Issue("kfp_create_experiment", 0)
            /\ Block("p_run", "run_call")
       ELSE /\ EndNow("p_run", "NameError")
            /\ UNCHANGED << bound, remoteVars >>
  /\ UNCHANGED << notebook, celebVars, trainVars, pipeVars >>
  /\ UNCHANGED extVars

\* the experiment is created (or the call raises); run_pipeline then reads
\* the archive, which has to exist, and submits it
PipeRunAnswer ==
  /\ pc = "run_call"
  /\ \E c \in outstanding :
       /\ outstanding' = outstanding \ {c}
       /\ IF c.op = "kfp_create_experiment"
            THEN \/ /\ tracking' = tracking \cup {"kfp_experiment"}
                    /\ bound' = bound \cup {"aws_experiment"}
                    /\ IF zipWritten
                         THEN /\ outstanding' = {Call("run_pipeline", 0)}
                              /\ callCount' = [callCount EXCEPT
                                                 !["run_pipeline"] = @ + 1]
                              /\ UNCHANGED << outcome, pc >>
                         ELSE /\ outcome' = [outcome EXCEPT
                                   !["p_run"] = "FileNotFoundError"]
                              /\ pc' = "idle"
                              /\ UNCHANGED callCount
                 \/ /\ outcome' = [outcome EXCEPT !["p_run"] = "ApiException"]
                    /\ pc' = "idle"
                    /\ UNCHANGED << tracking, bound, callCount >>
            ELSE /\ bound' = bound \cup {"my_run"}
                 /\ outcome' = [outcome EXCEPT !["p_run"] = "ok"]
                 /\ pc' = "idle"
                 /\ UNCHANGED << tracking, callCount >>
  /\ UNCHANGED << notebook, runAll, celebVars, trainJob, latestJob,
                  modelArchive, modelDir, pipeVars >>
  /\ UNCHANGED extVars

PipeNext ==
  \/ PipeRegion
  \/ PipeImports
  \/ PipeLoadOps
  \/ PipeConfig
  \/ PipeProcessingCode
  \/ PipeTrainingCode
  \/ PipeHelpers
  \/ PipeDefPipeline
  \/ PipeCompile
  \/ PipeRun
  \/ PipeRunAnswer

\* ------------------------------------------------------ the job manifest
\* containers[0].command: one element per argument, an argument of the form
\* --key=value split at its dashes and at its equals sign
ManifestCommand ==
  <<
     << "python" >>,
     << "/opt/ml/code/train.py" >>,
     << "--", "train_steps_per_epoch", "=", "1" >>,
     << "--", "epochs", "=", "1" >>,
     << "--", "learning_rate", "=", "0.00001" >>,
     << "--", "epsilon", "=", "0.00000001" >>,
     << "--", "train_batch_size", "=", "36" >>,
     << "--", "validation_batch_size", "=", "18" >>,
     << "--", "test_batch_size", "=", "18" >>,
     << "--", "train_steps_per_epoch", "=", "1" >>,
     << "--", "validation_steps", "=", "1" >>,
     << "--", "test_steps", "=", "1" >>,
     << "--", "use_xla", "=", "True" >>,
     << "--", "use_amp", "=", "False" >>,
     << "--", "max_seq_length", "=", "64" >>,
     << "--", "freeze_bert_layer", "=", "True" >>,
     << "--", "enable_sagemaker_debugger", "=", "False" >>,
     << "--", "enable_checkpointing", "=", "False" >>,
     << "--", "enable_tensorboard", "=", "False" >>,
     << "--", "run_validation", "=", "True" >>,
     << "--", "run_test", "=", "False" >>,
     << "--", "run_sample_predictions", "=", "False" >>
  >>

\* the names of containers[0].env
ManifestEnv ==
  <<
     "SM_TRAINING_ENV",
     "SAGEMAKER_JOB_NAME",
     "SM_CURRENT_HOST",
     "SM_NUM_GPUS",
     "SM_HOSTS",
     "SM_MODEL_DIR",
     "SM_OUTPUT_DIR",
     "SM_OUTPUT_DATA_DIR",
     "SM_CHANNEL_TRAIN",
     "SM_CHANNEL_VALIDATION",
     "SM_CHANNEL_TEST",
     "HDF5_USE_FILE_LOCKING"
  >>

\* the key of a command-line argument of the form --key=value
FlagKeyWhole(arg) == arg[1]

FlagKey(arg) == IF Len(arg) >= 2 /\ arg[1] = "--" THEN arg[2] ELSE ""

\* the keys the command passes as flags
ManifestFlagKeys ==
  {FlagKey(ManifestCommand[i]) : i \in 1..Len(ManifestCommand)} \ {""}

\* the environment variables that would carry hyperparameter key: its name
\* in upper case, alone or behind the training toolkit's SM_HP_ prefix
HyperparameterEnvNames(key) ==
  CASE key = "epochs" -> {"EPOCHS", "SM_HP_EPOCHS"}
    [] key = "learning_rate" -> {"LEARNING_RATE", "SM_HP_LEARNING_RATE"}
    [] key = "dataset_variant" ->
         {"DATASET_VARIANT", "SM_HP_DATASET_VARIANT"}
    [] key = "embedding_dimension" ->
         {"EMBEDDING_DIMENSION", "SM_HP_EMBEDDING_DIMENSION"}
    [] key = "enable_tensorboard" ->
         {"ENABLE_TENSORBOARD", "SM_HP_ENABLE_TENSORBOARD"}
    [] OTHER -> {}

\* key reaches the container as a flag or as an environment variable
PresentInManifest(key) ==
  \/ key \in ManifestFlagKeys
  \/ \E i \in 1..Len(ManifestEnv) :
        ManifestEnv[i] \in HyperparameterEnvNames(key)

RestartPolicyOnFailure == "OnFailure"

RestartPolicy == "Never"

\* kind: Pod, metadata.name: bert-csi-fsx
Manifest ==
  [ kind |-> "Pod",
    name |-> "bert-csi-fsx",
    containers |-> << [name |-> "bert", command |-> ManifestCommand,
                       env |-> ManifestEnv] >>,
    restartPolicy |-> RestartPolicy ]

ContainerNames == {Manifest.containers[i].name :
                     i \in 1..Len(Manifest.containers)}

\* the orchestrator's rule for a container that exited with code
ShouldRestart(policy, code) ==
  \/ policy = "Always"
  \/ policy = "OnFailure" /\ code # 0

\* the operator submits the manifest: the pod exists and waits for a node
PodCreate ==
  /\ notebook = "pod"
  /\ podPhase = "-"
  /\ podPhase' = "Pending"
  /\ UNCHANGED << sessionVars, containerState, starts, exits, calcVars >>

\* the node starts a container of the pod with its command and env
ContainerStart ==
  /\ podPhase \in {"Pending", "Running"}
  /\ \E c \in ContainerNames :
       /\ containerState[c] = "waiting"
       /\ starts[c] < MaxStarts
       /\ containerState' = [containerState EXCEPT ![c] = "running"]
       /\ starts' = [starts EXCEPT ![c] = @ + 1]
  /\ podPhase' = "Running"
  /\ UNCHANGED << sessionVars, exits, calcVars >>

\* the container's process exits; restartPolicy decides what follows
ContainerExit ==
  /\ \E c \in ContainerNames, code \in {0, 1} :
       /\ containerState[c] = "running"
       /\ exits' = [exits EXCEPT ![c] = @ + 1]
       /\ IF ShouldRestart(Manifest.restartPolicy, code)
            THEN /\ containerState' = [containerState EXCEPT ![c] = "waiting"]
                 /\ UNCHANGED podPhase
            ELSE /\ containerState' =
                      [containerState EXCEPT ![c] = "terminated"]
                 /\ podPhase' =
                      IF \E d \in ContainerNames \ {c} :
                           containerState[d] # "terminated"
                        THEN podPhase
                        ELSE IF code = 0 THEN "Succeeded" ELSE "Failed"
  /\ UNCHANGED << sessionVars, starts, calcVars >>

PodNext ==
  \/ PodCreate
  \/ ContainerStart
  \/ ContainerExit

\* ------------------------------------------------------------ the system
\* a fresh kernel, and services that hold nothing of this session
SessionIdle ==
  /\ outcome = [c \in Cells |-> "-"]
  /\ pc = "idle"
  /\ bound = {}
  /\ runAll = TRUE
  /\ outstanding = {}
  /\ callCount = [op \in RemoteOps |-> 0]
  /\ recognizeCelebritiesResponse = NoResponse
  /\ boxes = << >>
  /\ startCelebrityRekognition = [JobId |-> 0]
  /\ celebrityJobId = 0
  /\ getCelebrityRecognition = [JobStatus |-> "-"]
  /\ jobs = << >>
  /\ sleeps = 0
  /\ delays = {}
  /\ lateGets = 0
  /\ displayed = "-"
  /\ drawInvoked = {}
  /\ files = {}
  /\ trainJob = "-"
  /\ latestJob = FALSE
  /\ modelArchive = FALSE
  /\ modelDir = FALSE
  /\ tracking = {}
  /\ awsRegion = "-"
  /\ ecrRegistry = "-"
  /\ pipelineOps = << >>
  /\ zipWritten = FALSE
  /\ estimatorConfig = NoEstimator
  /\ queriedMetrics = << >>
  /\ stored = {}

\* the manifest was not submitted
PodIdle ==
  /\ podPhase = "-"
  /\ containerState = [c \in ContainerNames |-> "waiting"]
  /\ starts = [c \in ContainerNames |-> 0]
  /\ exits = [c \in ContainerNames |-> 0]

\* no log line is being scraped
MetricsIdle ==
  /\ logLine = << >>
  /\ defIndex = 0
  /\ emitted = {}

\* no model is built
ModelIdle ==
  /\ use_timestamps = FALSE
  /\ attrs = {}
  /\ attrReads = {}
  /\ inputs = << >>
  /\ userOutputs = << >>
  /\ queryWidths = << >>
  /\ movieWidth = 0
  /\ candidateWidth = 0

\* no split is made
SplitIdle ==
  /\ shuffled = << >>
  /\ epochs = 0
  /\ lastEpoch = << >>
  /\ trainSeen = {}
  /\ testCache = << >>

\* no result is listed
ListIdle ==
  /\ celebrities = << >>
  /\ listed = 0
  /\ theCelebs = << >>
  /\ strDetail = << >>
  /\ strOverall = << >>
  /\ listError = "-"
  /\ listDone = FALSE

DrawIdle ==
  /\ drawnCell = "-"
  /\ faceResponse = [CelebrityFaces |-> << >>, UnrecognizedFaces |-> << >>]
  /\ sourceImage = << >>
  /\ boxList = << >>
  /\ boxIndex = 0
  /\ col = 0
  /\ drawOps = << >>
  /\ tempFiles = {}
  /\ shown = FALSE
  /\ drawPc = "-"

\* the operator runs one script
Init ==
  /\ notebook \in Scripts
  /\ store = {}
  /\ SessionIdle
  /\ PodIdle
  /\ MetricsIdle
  /\ ModelIdle
  /\ SplitIdle
  /\ ListIdle
  /\ DrawIdle

Next == CelebNext \/ TrainNext \/ PipeNext \/ PodNext

Spec == Init /\ [][Next]_vars

\* the wait cell and the service take their steps, and the video job
\* eventually leaves IN_PROGRESS; the operator may stop at any time
LiveSpec ==
  /\ Init
  /\ [][Next]_vars
  /\ WF_vars(WaitAnswer)
  /\ WF_vars(WaitSleep)
  /\ WF_vars(WaitPoll)
  /\ WF_vars(WaitExit)
  /\ WF_vars(VideoJobFinishes)

\* ------------------------------------------- scraping of the training log
\* the sample log line of the notebook, one character per element
SampleLogLine ==
  << "4", "9", "9", "/", "5", "0", "0", " ", "[", "=", "=", "=", "=", "=",
     ">", ".", ".", "]", " ", "-", " ", "E", "T", "A", ":", " ", "3", "s",
     " ", "-", " ", "r", "o", "o", "t", "_", "m", "e", "a", "n", "_", "s",
     "q", "u", "a", "r", "e", "d", "_", "e", "r", "r", "o", "r", ":", " ",
     "1", ".", "1", "1", "9", "8", " ", "-", " ", "f", "a", "c", "t", "o",
     "r", "i", "z", "e", "d", "_", "t", "o", "p", "_", "k", "/", "t", "o",
     "p", "_", "1", "0", "_", "c", "a", "t", "e", "g", "o", "r", "i", "c",
     "a", "l", "_", "a", "c", "c", "u", "r", "a", "c", "y", ":", " ", "0",
     ".", "4", "8", "1", " ", "-", " ", "f", "a", "c", "t", "o", "r", "i",
     "z", "e", "d", "_", "t", "o", "p", "_", "k", "/", "t", "o", "p", "_",
     "5", "0", "_", "c", "a", "t", "e", "g", "o", "r", "i", "c", "a", "l",
     "_", "a", "c", "c", "u", "r", "a", "c", "y", ":", " ", "0", ".", "6",
     "0", "7", " ", "-", " ", "f", "a", "c", "t", "o", "r", "i", "z", "e",
     "d", "_", "t", "o", "p", "_", "k", "/", "t", "o", "p", "_", "1", "0",
     "0", "_", "c", "a", "t", "e", "g", "o", "r", "i", "c", "a", "l", "_",
     "a", "c", "c", "u", "r", "a", "c", "y", ":", " ", "0", ".", "8", "8",
     "5" >>

\* the lines the service scrapes: the sample line as far as it was written
LogLines == {SubSeq(SampleLogLine, 1, n) : n \in 0..Len(SampleLogLine)}

\* the metrics the notebook documents for the sample line
DocumentedMetrics ==
  { [ Name |-> "root_mean_squared_error",
      Value |-> [whole |-> 1, frac |-> << 1, 1, 9, 8 >>] ],
    [ Name |-> "factorized_top_k/top_10_categorical_accuracy",
      Value |-> [whole |-> 0, frac |-> << 4, 8, 1 >>] ],
    [ Name |-> "factorized_top_k/top_50_categorical_accuracy",
      Value |-> [whole |-> 0, frac |-> << 6, 0, 7 >>] ],
    [ Name |-> "factorized_top_k/top_100_categorical_accuracy",
      Value |-> [whole |-> 0, frac |-> << 8, 8, 5 >>] ] }

\* the literal of a regex matches line at position pos
MatchAt(line, pos, literal) ==
  /\ pos + Len(literal) - 1 <= Len(line)
  /\ \A k \in 1..Len(literal) : line[pos + k - 1] = literal[k]

\* the length of the longest run of characters of class from position pos
RECURSIVE RunLength(_, _, _)
RunLength(line, pos, class) ==
  IF pos <= Len(line) /\ line[pos] \in class
    THEN 1 + RunLength(line, pos + 1, class)
    ELSE 0

\* re.search of a definition's Regex: the text of the group at the leftmost
\* match, << >> when the regex matches nowhere
RegexSearch(regex, line) ==
  LET hits == {p \in 1..Len(line) :
                 /\ MatchAt(line, p, regex.literal)
                 /\ RunLength(line, p + Len(regex.literal), regex.group) >= 1}
  IN  IF hits = {}
        THEN << >>
        ELSE LET p == CHOOSE h \in hits : \A g \in hits : h <= g
                 from == p + Len(regex.literal)
             IN  SubSeq(line, from,
                        from + RunLength(line, from, regex.group) - 1)

DigitChars == << "0", "1", "2", "3", "4", "5", "6", "7", "8", "9" >>

DigitOf(ch) == (CHOOSE d \in 1..10 : DigitChars[d] = ch) - 1

RECURSIVE DigitsValue(_)
DigitsValue(text) ==
  IF text = << >>
    THEN 0
    ELSE 10 * DigitsValue(SubSeq(text, 1, Len(text) - 1))
           + DigitOf(text[Len(text)])

RECURSIVE StripZeros(_)
StripZeros(digits) ==
  IF digits # << >> /\ digits[Len(digits)] = 0
    THEN StripZeros(SubSeq(digits, 1, Len(digits) - 1))
    ELSE digits

NotANumber == [whole |-> -1, frac |-> << >>]

\* the captured text as a number: its whole part and the digits of its
\* fraction without trailing zeros; NotANumber for a text with no digit or
\* with more than one point
ParseFloat(text) ==
  LET points == {i \in 1..Len(text) : text[i] = "."}
  IN  IF Cardinality(points) > 1 \/ Cardinality(points) = Len(text)
        THEN NotANumber
        ELSE LET point == IF points = {} THEN Len(text) + 1
                                         ELSE CHOOSE i \in points : TRUE
                 tail == SubSeq(text, point + 1, Len(text))
             IN  [ whole |-> DigitsValue(SubSeq(text, 1, point - 1)),
                   frac |-> StripZeros([i \in 1..Len(tail) |->
                                          DigitOf(tail[i])]) ]

\* the service applies the next metric definition of the training job to
\* the line and emits the captured number under the definition's Name
ScrapeMetric ==
  /\ notebook = "log"
  /\ defIndex < Len(metrics_definitions)
  /\ defIndex' = defIndex + 1
  /\ LET def == metrics_definitions[defIndex + 1]
         text == RegexSearch(def.Regex, logLine)
     IN  emitted' =
           IF text = << >> \/ ParseFloat(text) = NotANumber
             THEN emitted
             ELSE emitted \cup {[Name |-> def.Name, Value |-> ParseFloat(text)]}
  /\ UNCHANGED << exceptMetricVars, logLine >>

MetricsInit ==
  /\ notebook = "log"
  /\ store = {}
  /\ SessionIdle
  /\ PodIdle
  /\ logLine \in LogLines
  /\ defIndex = 0
  /\ emitted = {}
  /\ ModelIdle
  /\ SplitIdle
  /\ ListIdle
  /\ DrawIdle

MetricsNext == ScrapeMetric

MetricsSpec == MetricsInit /\ [][MetricsNext]_vars

\* ------------------------------------------------- the two-tower model
\* the vocabularies and the timestamps of the ratings
unique_user_ids == << "138", "92" >>
unique_movie_titles == << "Alien", "Heat" >>
Timestamps == 0..MaxTimestamp

\* np.linspace(min_timestamp, max_timestamp, num): its first and last
\* boundary
timestamp_buckets ==
  << CHOOSE t \in Timestamps : \A u \in Timestamps : t <= u,
     CHOOSE t \in Timestamps : \A u \in Timestamps : u <= t >>

EmbeddingDimension == 32
TimestampEmbeddingDimension == 32
TitleEmbeddingDimension == 32
TitleTextEmbeddingDimension == 32
QueryDenseUnits == 32
CandidateDenseUnits == 32

\* StringLookup(vocabulary, mask_token=None): 0 for a text outside the
\* vocabulary, else the text's position
StringLookup(vocabulary, text) ==
  IF \E i \in 1..Len(vocabulary) : vocabulary[i] = text
    THEN CHOOSE i \in 1..Len(vocabulary) : vocabulary[i] = text
    ELSE 0

\* Discretization(bins): the number of boundaries at or below x
Discretization(bins, x) == Cardinality({i \in 1..Len(bins) : bins[i] <= x})

\* Embedding(_, dim): row index of the layer's table, dim wide
Embedding(layer, index, dim) ==
  [layer |-> layer, index |-> index, width |-> dim]

\* Normalization() adapted to timestamps: x centred on their mean, kept in
\* halves of a unit; one column wide
Normalization(x) ==
  LET lo == timestamp_buckets[1]
      hi == timestamp_buckets[2]
  IN  [layer |-> "normalized_timestamp", index |-> 2 * x - (lo + hi),
       width |-> 1]

\* what reading a missing attribute of the instance gives
AttributeError == << [layer |-> "AttributeError", index |-> 0, width |-> 0] >>

\* UserModel.__init__: the attributes it sets
UserModelInit(flag) ==
  {"_use_timestamps", "user_embedding"} \cup
    (IF flag THEN {"timestamp_embedding", "normalized_timestamp"} ELSE {})

\* tf.concat([...], axis=1) of UserModel.call: the user-id embedding, the
\* timestamp-bucket embedding and the normalized timestamp side by side
ConcatParts(present, input) ==
  IF {"timestamp_embedding", "normalized_timestamp"} \subseteq present
    THEN << Embedding("user_embedding",
                      StringLookup(unique_user_ids, input.user_id),
                      EmbeddingDimension),
            Embedding("timestamp_embedding",
                      Discretization(timestamp_buckets, input.timestamp),
                      TimestampEmbeddingDimension),
            Normalization(input.timestamp) >>
    ELSE AttributeError

\* UserModel.call: the attributes it reads and what it returns
UserModelCallConcat(flag, present, input) ==
  [ reads |-> { "_use_timestamps", "user_embedding", "timestamp_embedding",
                "normalized_timestamp" },
    out |-> ConcatParts(present, input) ]

UserModelCall(flag, present, input) ==
  IF ~flag
    THEN [ reads |-> {"_use_timestamps", "user_embedding"},
           out |-> << Embedding("user_embedding",
                                StringLookup(unique_user_ids, input.user_id),
                                EmbeddingDimension) >> ]
    ELSE [ reads |-> { "_use_timestamps", "user_embedding",
                       "timestamp_embedding", "normalized_timestamp" },
           out |-> ConcatParts(present, input) ]

\* MovieModel.call
MovieModelCall(title) ==
  << Embedding("title_embedding", StringLookup(unique_movie_titles, title),
               TitleEmbeddingDimension),
     Embedding("title_text_embedding",
               StringLookup(unique_movie_titles, title),
               TitleTextEmbeddingDimension) >>

\* the number of columns of side-by-side parts
RECURSIVE Width(_)
Width(parts) ==
  IF parts = << >> THEN 0
                   ELSE parts[1].width + Width(Tail(parts))

\* Dense(units): units columns, whatever the width of its input
Dense(units, parts) ==
  << [layer |-> "dense", index |-> parts, width |-> units] >>

\* query_model = Sequential([UserModel(use_timestamps), Dense(32)])
QueryModelNoDense(userOut) == userOut

QueryModel(userOut) == Dense(QueryDenseUnits, userOut)

\* candidate_model = Sequential([MovieModel(), Dense(32)])
CandidateModel(movieOut) == Dense(CandidateDenseUnits, movieOut)

QueryInputs == [user_id : Range(unique_user_ids), timestamp : Timestamps]

\* model = MovielensModel(use_timestamps): builds the UserModel inside
BuildModel ==
  /\ notebook = "towers"
  /\ attrs = {}
  /\ attrs' = UserModelInit(use_timestamps)
  /\ UNCHANGED << exceptModelVars, use_timestamps,
                  attrReads, inputs, userOutputs, queryWidths, movieWidth,
                  candidateWidth >>

\* compute_loss: query_model on the user id and timestamp of the next input
CallQuery ==
  /\ attrs # {}
  /\ Len(userOutputs) < Len(inputs)
  /\ LET r == UserModelCall(use_timestamps, attrs,
                            inputs[Len(userOutputs) + 1])
     IN  /\ attrReads' = attrReads \cup r.reads
         /\ userOutputs' = Append(userOutputs, r.out)
         /\ queryWidths' = Append(queryWidths, Width(QueryModel(r.out)))
  /\ UNCHANGED << exceptModelVars, use_timestamps, attrs,
                  inputs, movieWidth, candidateWidth >>

\* compute_loss: candidate_model on a movie title
CallCandidate ==
  /\ attrs # {}
  /\ candidateWidth = 0
  /\ \E title \in Range(unique_movie_titles) :
       /\ movieWidth' = Width(MovieModelCall(title))
       /\ candidateWidth' = Width(CandidateModel(MovieModelCall(title)))
  /\ UNCHANGED << exceptModelVars, use_timestamps, attrs,
                  attrReads, inputs, userOutputs, queryWidths >>

ModelInit ==
  /\ notebook = "towers"
  /\ store = {}
  /\ SessionIdle
  /\ PodIdle
  /\ MetricsIdle
  /\ use_timestamps \in BOOLEAN
  /\ inputs \in [1..2 -> QueryInputs]
  /\ attrs = {}
  /\ attrReads = {}
  /\ userOutputs = << >>
  /\ queryWidths = << >>
  /\ movieWidth = 0
  /\ candidateWidth = 0
  /\ SplitIdle
  /\ ListIdle
  /\ DrawIdle

ModelNext == BuildModel \/ CallQuery \/ CallCandidate

ModelSpec == ModelInit /\ [][ModelNext]_vars

\* ------------------------------------------------- the train-test split
\* the ratings, by their position in the dataset
Ratings == 1..NumRatings

\* train = shuffled.take(80_000): four fifths of the ratings
TrainCount == (4 * NumRatings) \div 5

\* test = shuffled.skip(80_000).take(20_000): the remaining fifth
TestCount == NumRatings - TrainCount

\* the orders a shuffle whose buffer holds all of S can give
Orders(S) ==
  {f \in [1..Cardinality(S) -> S] :
     \A i, j \in 1..Cardinality(S) : f[i] = f[j] => i = j}

Take(order, n) == SubSeq(order, 1, IF n < Len(order) THEN n ELSE Len(order))

Skip(order, n) == SubSeq(order, n + 1, Len(order))

ReshuffleEachIterationDefault == TRUE

\* ratings.shuffle(100_000, seed=42, reshuffle_each_iteration=False)
ReshuffleEachIteration == FALSE

\* the orders a pass over shuffled can give, fixed being the order of the
\* first pass
ShuffledOrders(fixed) ==
  IF ReshuffleEachIteration THEN Orders(Ratings) ELSE {fixed}

\* one pass over cached_train = train.shuffle(100_000).batch(2048)
IterateTrain ==
  /\ notebook = "split"
  /\ epochs < MaxEpochs
  /\ \E base \in ShuffledOrders(shuffled) :
       \E order \in Orders(Range(Take(base, TrainCount))) :
          /\ lastEpoch' = order
          /\ trainSeen' = trainSeen \cup Range(order)
  /\ epochs' = epochs + 1
  /\ UNCHANGED << exceptSplitVars, shuffled, testCache >>

\* the first pass over cached_test = test.batch(4096).cache() fills the
\* cache; later passes read the cache and change nothing
IterateTest ==
  /\ notebook = "split"
  /\ testCache = << >>
  /\ \E base \in ShuffledOrders(shuffled) :
       testCache' = Take(Skip(base, TrainCount), TestCount)
  /\ UNCHANGED << exceptSplitVars, shuffled, epochs, lastEpoch, trainSeen >>

\* the seeded shuffle gives some order of the ratings
SplitInit ==
  /\ notebook = "split"
  /\ store = {}
  /\ SessionIdle
  /\ PodIdle
  /\ MetricsIdle
  /\ ModelIdle
  /\ ListIdle
  /\ DrawIdle
  /\ shuffled \in Orders(Ratings)
  /\ epochs = 0
  /\ lastEpoch = << >>
  /\ trainSeen = {}
  /\ testCache = << >>

SplitNext == IterateTrain \/ IterateTest

SplitSpec == SplitInit /\ [][SplitNext]_vars

\* ------------------------------------------------ the listing of results
\* confidences are kept in thousandths of a percent
Confidences == {94990, 95000, 95004, 99996}

\* one entry of the response with a recognized celebrity, and one without
Recognized ==
  [Timestamp : {0}, Celebrity : [Name : FaceNames, Confidence : Confidences]]
Unrecognized == [Timestamp : {0}]

\* responses of up to MaxDetections entries; the entry at position i
\* carries Timestamp i
CelebrityLists ==
  UNION { { [i \in 1..n |->
              IF "Celebrity" \in DOMAIN f[i]
                THEN [Timestamp |-> i, Celebrity |-> f[i].Celebrity]
                ELSE [Timestamp |-> i]] :
            f \in [1..n -> Recognized \cup Unrecognized] } :
          n \in 0..MaxDetections }

\* if(cconfidence > 95)
QualifiesAtLeast(cconfidence) == cconfidence >= ConfidenceThreshold * 1000

Qualifies(cconfidence) == cconfidence > ConfidenceThreshold * 1000

\* round(cconfidence, 2), in hundredths of a percent
Round2(cconfidence) ==
  IF cconfidence % 10 >= 5 THEN cconfidence \div 10 + 1
                           ELSE cconfidence \div 10

\* "At {} ms: {} (Confidence: {})<br>".format(ts, cname, round(...))
DetailLine(ts, cname, cconfidence) ==
  << "At ", ts, " ms: ", cname, " (Confidence: ", Round2(cconfidence),
     ")<br>" >>

\* strDetail = strDetail + "At ..."
AddDetailFirstOnly(detail, celebs, line, cname) ==
  IF \E i \in 1..Len(celebs) : celebs[i] = cname THEN detail
                                                  ELSE Append(detail, line)

AddDetail(detail, celebs, line, cname) == Append(detail, line)

\* if not cname in theCelebs: theCelebs[cname] = cname
AddCeleb(celebs, cname) ==
  IF \E i \in 1..Len(celebs) : celebs[i] = cname THEN celebs
                                                  ELSE Append(celebs, cname)

\* "Name: {}<br>".format(theCeleb)
OverallLine(theCeleb) == << "Name: ", theCeleb, "<br>" >>

\* 'Celebrity' in celebrity
InDict(key, dict) == key \in DOMAIN dict

\* one turn of: for celebrity in getCelebrityRecognition['Celebrities'];
\* celebrity["Celebrity"] raises KeyError on an entry without that key
ListEntry ==
  /\ notebook = "listing"
  /\ listError = "-"
  /\ listed < Len(celebrities)
  /\ listed' = listed + 1
  /\ LET celebrity == celebrities[listed + 1]
     IN  IF InDict("Celebrity", celebrity)
           THEN IF "Celebrity" \notin DOMAIN celebrity
                  THEN /\ listError' = "KeyError"
                       /\ UNCHANGED << strDetail, theCelebs >>
                  ELSE LET cconfidence == celebrity.Celebrity.Confidence
                           ts == celebrity.Timestamp
                           cname == celebrity.Celebrity.Name
                       IN  /\ UNCHANGED listError
                           /\ IF Qualifies(cconfidence)
                                THEN /\ strDetail' =
                                          AddDetail(strDetail, theCelebs,
                                                    DetailLine(ts, cname,
                                                               cconfidence),
                                                    cname)
                                     /\ theCelebs' = AddCeleb(theCelebs, cname)
                                ELSE UNCHANGED << strDetail, theCelebs >>
           ELSE UNCHANGED << strDetail, theCelebs, listError >>
  /\ UNCHANGED << exceptListVars, celebrities, strOverall, listDone >>

\* for theCeleb in theCelebs: strOverall = strOverall + "Name: ..."; display
ListOverall ==
  /\ notebook = "listing"
  /\ listError = "-"
  /\ listed = Len(celebrities)
  /\ ~listDone
  /\ strOverall' = [i \in 1..Len(theCelebs) |-> OverallLine(theCelebs[i])]
  /\ listDone' = TRUE
  /\ UNCHANGED << exceptListVars, celebrities, listed, theCelebs, strDetail,
                  listError >>

\* the cell starts with a response of the video job and empty listings
ListInit ==
  /\ notebook = "listing"
  /\ store = {}
  /\ SessionIdle
  /\ PodIdle
  /\ MetricsIdle
  /\ ModelIdle
  /\ SplitIdle
  /\ DrawIdle
  /\ celebrities \in CelebrityLists
  /\ listed = 0
  /\ theCelebs = << >>
  /\ strDetail = << >>
  /\ strOverall = << >>
  /\ listError = "-"
  /\ listDone = FALSE

ListNext == ListEntry \/ ListOverall

ListSpec == ListInit /\ [][ListNext]_vars

\* ------------------------------------- drawing the boxes of an image
\* The cells that show the faces of an image: each builds a list of
\* (label, BoundingBox) pairs from the recognize_celebrities response and
\* hands it to drawBoundingBoxes with the key of the image.

\* two faces the service may report, as fractions in hundredths
BoundingBoxes ==
  { [Left |-> 10, Top |-> 20, Width |-> 30, Height |-> 40],
    [Left |-> 50, Top |-> 5, Width |-> 25, Height |-> 50] }

CelebrityFaces ==
  { [Name |-> "Clarkson",
     Face |-> [BoundingBox |->
                 [Left |-> 10, Top |-> 20, Width |-> 30, Height |-> 40]]],
    [Name |-> "May",
     Face |-> [BoundingBox |->
                 [Left |-> 50, Top |-> 5, Width |-> 25, Height |-> 50]]] }

UnrecognizedFaces == [BoundingBox : BoundingBoxes]

\* responses of recognize_celebrities with at most MaxDrawnFaces faces
DrawResponses ==
  { r \in [CelebrityFaces : SeqsUpTo(CelebrityFaces, MaxDrawnFaces),
           UnrecognizedFaces : SeqsUpTo(UnrecognizedFaces, MaxDrawnFaces)] :
      Len(r.CelebrityFaces) + Len(r.UnrecognizedFaces) <= MaxDrawnFaces }

\* keys the image may have in the bucket, one character per element
SourceImages ==
  { << "m", "/", "a", ".", "p", "n", "g" >>,
    << "m", "/", "a", ".", "j", "p", "g" >>,
    << "a", ".", "J", "P", "G" >>,
    << "a", ".", "j", "p", "e", "g" >>,
    << "a", ".", "J", "p", "e", "G" >>,
    << "a", ".", "g", "i", "f" >>,
    << "m", "/", "a" >>,
    << "a", "j", "p", "g" >>,
    << "a", ".", "j", "p", "g", ".", "p", "n", "g" >> }

\* the size of the image in the bucket
ImageSize == [width |-> 200, height |-> 100]

tempFolder == << "m", "1", "t", "m", "p", "/" >>

colors ==
  << << 255, 255, 255 >>, << 255, 255, 255 >>, << 76, 182, 252 >>,
     << 52, 194, 123 >> >>

maxcol == Len(colors)

line == 3

\* os.path.basename: what follows the last "/"
Basename(path) ==
  LET slashes == {i \in 1..Len(path) : path[i] = "/"}
      from == IF slashes = {} THEN 1
              ELSE 1 + CHOOSE i \in slashes : \A j \in slashes : j <= i
  IN  SubSeq(path, from, Len(path))

UpperCase ==
  << "A", "B", "C", "D", "E", "F", "G", "H", "I", "J", "K", "L", "M",
     "N", "O", "P", "Q", "R", "S", "T", "U", "V", "W", "X", "Y", "Z" >>

LowerCase ==
  << "a", "b", "c", "d", "e", "f", "g", "h", "i", "j", "k", "l", "m",
     "n", "o", "p", "q", "r", "s", "t", "u", "v", "w", "x", "y", "z" >>

\* a mutant of Lower: the key is compared as it is written
LowerAsWritten(s) == s

\* str.lower
Lower(s) ==
  [i \in 1..Len(s) |->
     IF \E k \in 1..Len(UpperCase) : UpperCase[k] = s[i]
       THEN LowerCase[CHOOSE k \in 1..Len(UpperCase) : UpperCase[k] = s[i]]
       ELSE s[i]]

\* str.endswith
EndsWith(s, suffix) ==
  /\ Len(suffix) <= Len(s)
  /\ SubSeq(s, Len(s) - Len(suffix) + 1, Len(s)) = suffix

\* imageFormat = "PNG"; if ext.endswith('jpg') or ext.endswith('jpeg')
ImageFormat(source) ==
  LET ext == Lower(source)
  IN  IF EndsWith(ext, << "j", "p", "g" >>)
         \/ EndsWith(ext, << "j", "p", "e", "g" >>)
        THEN "JPEG"
        ELSE "PNG"

ImageLocation(source) == tempFolder \o Basename(source)

\* int(fraction * extent), the fraction in hundredths
Pixel(fraction, extent) == (fraction * extent) \div 100

\* x1, y1, x2, y2 of a box on the image
Corners(bb) ==
  [x1 |-> Pixel(bb.Left, ImageSize.width),
   y1 |-> Pixel(bb.Top, ImageSize.height),
   x2 |-> Pixel(bb.Left + bb.Width, ImageSize.width),
   y2 |-> Pixel(bb.Top + bb.Height, ImageSize.height)]

\* draw.text((x1,y1), box[0], colors[col])
DrawText(c, label, colour) ==
  [shape |-> "text", xy |-> << c.x1, c.y1 >>, text |-> label,
   colour |-> colour]

\* for l in range(line): draw.rectangle((x1-l,y1-l,x2+l,y2+l), outline=...)
DrawRectangles(c, colour) ==
  [k \in 1..line |->
     LET l == k - 1
     IN  [shape |-> "rectangle",
          xy |-> << c.x1 - l, c.y1 - l, c.x2 + l, c.y2 + l >>,
          text |-> "", colour |-> colour]]

\* a mutant of NextCol: the index is not wrapped
NextColUnwrapped(c) == c + 1

\* col = (col+1)%maxcol
NextCol(c) == (c + 1) % maxcol

\* a mutant of CelebrityBoxes: every face gets the label of the first one
CelebrityBoxesFirstLabel(response) ==
  LET celebs == response.CelebrityFaces
  IN  [i \in 1..Len(celebs) |->
         << celebs[1].Name, celebs[i].Face.BoundingBox >>]

\* for celebrity in celebrities: boxes.append((celebrity['Name'], ...))
CelebrityBoxes(response) ==
  LET celebs == response.CelebrityFaces
  IN  [i \in 1..Len(celebs) |->
         << celebs[i].Name, celebs[i].Face.BoundingBox >>]

\* for face in faces: cboxes.append(('Unrecognized Face', ...))
UnrecognizedBoxes(response) ==
  LET faces == response.UnrecognizedFaces
  IN  [i \in 1..Len(faces) |->
         << "Unrecognized Face", faces[i].BoundingBox >>]

\* the extraction cell up to the download drawBoundingBoxes starts with
DrawCell ==
  /\ notebook = "draw"
  /\ drawPc = "-"
  /\ boxList' = IF drawnCell = "celebrity" THEN CelebrityBoxes(faceResponse)
                ELSE UnrecognizedBoxes(faceResponse)
  /\ drawPc' = "download"
  /\ UNCHANGED << exceptDrawVars, drawnCell, faceResponse, sourceImage,
                  boxIndex, col, drawOps, tempFiles, shown >>

\* s3.download_file returns or raises; Image.open, col = 0
DrawDownload ==
  /\ notebook = "draw"
  /\ drawPc = "download"
  /\ \/ /\ tempFiles' =
             {f \in tempFiles : f.path # ImageLocation(sourceImage)}
               \cup {[path |-> ImageLocation(sourceImage),
                      format |-> "original", annotated |-> << >>]}
        /\ col' = 0
        /\ drawPc' = "loop"
     \/ /\ drawPc' = "ClientError"
        /\ UNCHANGED << tempFiles, col >>
  /\ UNCHANGED << exceptDrawVars, drawnCell, faceResponse, sourceImage,
                  boxList, boxIndex, drawOps, shown >>

\* one turn of "for box in boxes"
DrawBox ==
  /\ notebook = "draw"
  /\ drawPc = "loop"
  /\ boxIndex < Len(boxList)
  /\ IF col < Len(colors)
       THEN LET box == boxList[boxIndex + 1]
                c == Corners(box[2])
            IN  /\ drawOps' =
                     (drawOps \o << DrawText(c, box[1], colors[col + 1]) >>)
                       \o DrawRectangles(c, colors[col + 1])
                /\ col' = NextCol(col)
                /\ boxIndex' = boxIndex + 1
                /\ UNCHANGED drawPc
       ELSE /\ drawPc' = "IndexError"
            /\ UNCHANGED << drawOps, col, boxIndex >>
  /\ UNCHANGED << exceptDrawVars, drawnCell, faceResponse, sourceImage,
                  boxList, tempFiles, shown >>

\* bbImage.save(imageLocation, format=imageFormat); display(bbImage)
DrawSave ==
  /\ notebook = "draw"
  /\ drawPc = "loop"
  /\ boxIndex = Len(boxList)
  /\ tempFiles' =
       {f \in tempFiles : f.path # ImageLocation(sourceImage)}
         \cup {[path |-> ImageLocation(sourceImage),
                format |-> ImageFormat(sourceImage),
                annotated |-> drawOps]}
  /\ shown' = TRUE
  /\ drawPc' = "shown"
  /\ UNCHANGED << exceptDrawVars, drawnCell, faceResponse, sourceImage,
                  boxList, boxIndex, col, drawOps >>

DrawInit ==
  /\ notebook = "draw"
  /\ store = {}
  /\ SessionIdle
  /\ PodIdle
  /\ MetricsIdle
  /\ ModelIdle
  /\ SplitIdle
  /\ ListIdle
  /\ drawnCell \in {"celebrity", "custom"}
  /\ faceResponse \in DrawResponses
  /\ sourceImage \in SourceImages
  /\ boxList = << >>
  /\ boxIndex = 0
  /\ col = 0
  /\ drawOps = << >>
  /\ tempFiles = {}
  /\ shown = FALSE
  /\ drawPc = "-"

DrawNext == DrawCell \/ DrawDownload \/ DrawBox \/ DrawSave

DrawSpec == DrawInit /\ [][DrawNext]_vars

\* ------------------------------------------- the video cells on their own
VideoInit ==
  /\ notebook = "video"
  /\ store = {}
  /\ SessionIdle
  /\ PodIdle
  /\ MetricsIdle
  /\ ModelIdle
  /\ SplitIdle
  /\ ListIdle
  /\ DrawIdle

VideoNext ==
  \/ CellSetup
  \/ CellVideoName
  \/ CellStart
  \/ CellStartAnswer
  \/ VideoJobFinishes
  \/ CellWait
  \/ WaitAnswer
  \/ WaitSleep
  \/ WaitPoll
  \/ WaitExit
  \/ CellList

VideoSpec == VideoInit /\ [][VideoNext]_vars

\* ------------------------------------------------------------ properties
GetOp == "get_celebrity_recognition"

\* C1: the wait cell polls exactly while the last stored JobStatus is
\* IN_PROGRESS: it sleeps for another poll only on IN_PROGRESS, it never
\* issues a status call after a response with another status was stored,
\* and when it has completed the stored response's JobStatus is not
\* IN_PROGRESS
C1_PollsWhileInProgress ==
  /\ lateGets = 0
  /\ pc = "wait_slept" => getCelebrityRecognition.JobStatus = "IN_PROGRESS"
  /\ outcome["c_wait"] = "ok" =>
       /\ "getCelebrityRecognition" \in bound
       /\ getCelebrityRecognition.JobStatus \in {"SUCCEEDED", "FAILED"}
       /\ \A c \in outstanding : c.op # GetOp

C1_Witness ==
  /\ outcome["c_wait"] = "ok"
  /\ sleeps >= 2
  /\ getCelebrityRecognition.JobStatus = "SUCCEEDED"

\* C2: when the video job eventually leaves IN_PROGRESS and no status call
\* raises, a running wait cell eventually ends and has displayed the job's
\* final status
C2_WaitTerminates ==
  (outcome["c_wait"] = "running") ~>
     \/ /\ outcome["c_wait"] = "ok"
        /\ displayed \in {"SUCCEEDED", "FAILED"}
        /\ displayed = jobs[celebrityJobId]
     \/ outcome["c_wait"] = "ClientError"

C2_Witness ==
  /\ outcome["c_wait"] = "ok"
  /\ sleeps >= 1
  /\ displayed = "FAILED"
  /\ jobs[celebrityJobId] = "FAILED"

\* C3: one status call precedes the first sleep and exactly one sleep of 5
\* seconds precedes every later status call: the status calls number the
\* sleeps plus one, and every sleep lasts 5 seconds
C3_ConstantDelay ==
  /\ delays \subseteq {5}
  /\ sleeps > 0 => delays = {5}
  /\ callCount[GetOp] = 0 => sleeps = 0
  /\ callCount[GetOp] > 0 =>
       callCount[GetOp] = IF pc = "wait_slept" THEN sleeps ELSE sleeps + 1

C3_Witness ==
  /\ outcome["c_wait"] = "ok"
  /\ sleeps = 2
  /\ callCount[GetOp] = 3

\* C4: remote calls are sequential: at most one call is outstanding and the
\* kernel is blocked while it is; a status call is issued only after
\* start_celebrity_recognition returned, and with the JobId it returned
C4_SequentialCalls ==
  /\ Cardinality(outstanding) <= 1
  /\ outstanding # {} => pc # "idle"
  /\ callCount[GetOp] > 0 => outcome["c_start"] = "ok"
  /\ \A c \in outstanding :
       c.op = GetOp =>
         /\ "startCelebrityRekognition" \in bound
         /\ c.JobId = startCelebrityRekognition.JobId
         /\ c.JobId \in DOMAIN jobs

C4_Witness ==
  /\ Call(GetOp, 2) \in outstanding
  /\ sleeps >= 1

\* C5: recognize_celebrities is not retried: it is issued once, and when it
\* raised the exception is the cell's outcome, nothing of it is in flight
\* and recognizeCelebritiesResponse is unbound
C5_NoRetry ==
  /\ callCount["recognize_celebrities"] <= 1
  /\ outcome["c_recognize"] = "InvalidS3ObjectException" =>
       /\ callCount["recognize_celebrities"] = 1
       /\ "recognizeCelebritiesResponse" \notin bound
       /\ Call("recognize_celebrities", 0) \notin outstanding

C5_Witness ==
  /\ outcome["c_recognize"] = "InvalidS3ObjectException"
  /\ Executed = {"c_setup", "c_imageName", "c_recognize"}

\* C6: in any order of the cells, drawBoundingBoxes(imageName, ...) is
\* invoked, and the first image saved, only after recognize_celebrities
\* returned a response; without one the extraction cell ends with NameError
\* with boxes empty and nothing drawn
C6_DrawOnlyAfterRecognition ==
  /\ "imageName" \in (drawInvoked \cup files) => outcome["c_recognize"] = "ok"
  /\ pc = "extract_download" => outcome["c_recognize"] = "ok"
  /\ (outcome["c_recognize"] # "ok" /\ outcome["c_extract"] # "-") =>
       /\ outcome["c_extract"] = "NameError"
       /\ "boxes" \in bound
       /\ boxes = << >>
       /\ "imageName" \notin (drawInvoked \cup files)

C6_Witness ==
  /\ outcome["c_recognize"] = "InvalidS3ObjectException"
  /\ outcome["c_defDraw"] = "ok"
  /\ outcome["c_extract"] = "NameError"

\* C7: nothing that was started is stopped, cancelled or deleted: no
\* destructive operation is ever issued, a started video job and a submitted
\* training job stay at the service, unstopped, and a created experiment or
\* trial stays
C7_NothingCancelled ==
  /\ \A op \in DestructiveOps : callCount[op] = 0
  /\ \A c \in outstanding : c.op \notin DestructiveOps
  /\ trainJob # "Stopped"
  /\ latestJob => trainJob # "-"
  /\ outcome["c_start"] = "ok" => celebrityJobId \in DOMAIN jobs
  /\ outcome["t_experiment"] = "ok" => "experiment" \in tracking
  /\ outcome["t_trial"] = "ok" => "trial" \in tracking

C7_Witness ==
  /\ outcome["t_wait"] = "UnexpectedStatusException"
  /\ trainJob = "Failed"
  /\ {"experiment", "trial"} \subseteq tracking

\* C8: the training notebook submits, waits and downloads in that order: the
\* fit cell blocks for the submission only, the job name is bound only
\* after a submission, the archive is had only from a completed job, and in
\* a top-to-bottom run the download and the extraction run only after wait
\* has returned with the job in a terminal state
C8_SubmitWaitDownload ==
  /\ outcome["t_fit"] = "running" => trainJob = "-"
  /\ outcome["t_fit"] = "ok" => latestJob
  /\ "recommender_training_job_name" \in bound => outcome["t_fit"] = "ok"
  /\ (modelArchive \/ modelDir) => trainJob = "Completed"
  /\ (runAll /\ (outcome["t_download"] # "-" \/ outcome["t_untar"] # "-")) =>
       /\ outcome["t_wait"] = "ok"
       /\ trainJob \in {"Completed", "Failed", "Stopped"}

C8_Witness ==
  /\ runAll
  /\ outcome["t_untar"] = "ok"
  /\ modelDir

PipelineChain ==
  << [name |-> "process", after |-> {}],
     [name |-> "training", after |-> {"process"}],
     [name |-> "create_model", after |-> {"training"}],
     [name |-> "deploy", after |-> {"create_model"}] >>

C10_PipelineCompiles ==
  (runAll /\ outcome["p_compile"] \notin {"-", "running"}) =>
     /\ outcome["p_compile"] = "ok"
     /\ Len(pipelineOps) = 4
     /\ zipWritten

ConfiguredMetricNames ==
  {estimatorConfig.metric_definitions[i].Name :
     i \in 1..Len(estimatorConfig.metric_definitions)}

\* C13: once the estimator is built and the lineage query is made, the
\* metric_names of the query are exactly the Name values of the estimator's
\* metric definitions, and no two definitions share a Name
C13_QueriedNamesAreConfigured ==
  (outcome["t_estimator"] = "ok" /\ queriedMetrics # << >>) =>
     /\ Range(queriedMetrics) = ConfiguredMetricNames
     /\ \A i, j \in 1..Len(estimatorConfig.metric_definitions) :
          estimatorConfig.metric_definitions[i].Name =
            estimatorConfig.metric_definitions[j].Name => i = j

C13_Witness ==
  /\ outcome["t_estimator"] = "ok"
  /\ outcome["t_analytics"] = "ok"
  /\ Len(queriedMetrics) = 4

\* C14 as stated: every hyperparameter key the estimator passes to the
\* training job is present in the manifest as a flag or an environment
\* variable
C14_ManifestHasEveryKey ==
  outcome["t_estimator"] = "ok" =>
     \A key \in DOMAIN estimatorConfig.hyperparameters :
        PresentInManifest(key)

\* C14: of the five hyperparameter keys the estimator passes, the manifest
\* carries epochs, learning_rate and enable_tensorboard as command-line
\* flags; dataset_variant and embedding_dimension are in the manifest
\* neither as a flag nor as an environment variable
C14_ManifestHasThreeKeys ==
  outcome["t_estimator"] = "ok" =>
     /\ DOMAIN estimatorConfig.hyperparameters =
          { "epochs", "learning_rate", "dataset_variant",
            "embedding_dimension", "enable_tensorboard" }
     /\ {key \in DOMAIN estimatorConfig.hyperparameters :
           PresentInManifest(key)} =
          {"epochs", "learning_rate", "enable_tensorboard"}
     /\ {"epochs", "learning_rate", "enable_tensorboard"}
          \subseteq ManifestFlagKeys

C14_Witness ==
  /\ outcome["t_estimator"] = "ok"
  /\ "dataset_variant" \in DOMAIN estimatorConfig.hyperparameters

\* C15: the pod has exactly one container; it is started at most once, and
\* once it has exited, with success or with failure, it stays terminated
C15_SingleRun ==
  /\ Len(Manifest.containers) = 1
  /\ Cardinality(ContainerNames) = 1
  /\ \A c \in ContainerNames :
       /\ starts[c] <= 1
       /\ exits[c] >= 1 => containerState[c] = "terminated"
       /\ exits[c] >= 1 => podPhase \in {"Succeeded", "Failed"}

C15_Witness ==
  /\ podPhase = "Failed"
  /\ \A c \in ContainerNames : starts[c] = 1 /\ exits[c] = 1

\* C12: when the four metric definitions have been applied to the sample
\* log line of the notebook, the metrics emitted are the documented ones:
\* root_mean_squared_error = 1.1198 and
\* factorized_top_k/top_10, top_50 and top_100_categorical_accuracy =
\* 0.481, 0.607 and 0.885
C12_SampleLineYieldsDocumentedMetrics ==
  (logLine = SampleLogLine /\ defIndex = Len(metrics_definitions)) =>
     emitted = DocumentedMetrics

\* C16: a UserModel built with use_timestamps = False has no
\* timestamp_embedding and no normalized_timestamp, its call reads neither,
\* and two inputs with the same user_id give the same output whatever their
\* timestamps; built with use_timestamps = True, its output is the user-id
\* embedding, the timestamp-bucket embedding and the normalized timestamp
\* side by side
C16_TimestampsUsedOnlyWhenAsked ==
  /\ ~use_timestamps =>
       /\ attrs \cap {"timestamp_embedding", "normalized_timestamp"} = {}
       /\ attrReads \cap {"timestamp_embedding", "normalized_timestamp"} = {}
       /\ \A i, j \in 1..Len(userOutputs) :
            inputs[i].user_id = inputs[j].user_id =>
               userOutputs[i] = userOutputs[j]
       /\ \A i \in 1..Len(userOutputs) :
            /\ Len(userOutputs[i]) = 1
            /\ userOutputs[i][1].layer = "user_embedding"
  /\ use_timestamps =>
       \A i \in 1..Len(userOutputs) :
          /\ Len(userOutputs[i]) = 3
          /\ userOutputs[i][1] =
               Embedding("user_embedding",
                         StringLookup(unique_user_ids, inputs[i].user_id), 32)
          /\ userOutputs[i][2] =
               Embedding("timestamp_embedding",
                         Discretization(timestamp_buckets,
                                        inputs[i].timestamp), 32)
          /\ userOutputs[i][3] = Normalization(inputs[i].timestamp)

C16_Witness ==
  /\ ~use_timestamps
  /\ Len(userOutputs) = 2
  /\ inputs[1].user_id = inputs[2].user_id
  /\ inputs[1].timestamp # inputs[2].timestamp
  /\ userOutputs[1] = userOutputs[2]

\* C17: for either value of use_timestamps, what query_model returns and
\* what candidate_model returns are both 32 wide, while what UserModel
\* returns is 32 wide without timestamps and 65 wide with them, and what
\* MovieModel returns is 64 wide
C17_TowersHaveSameWidth ==
  /\ Len(queryWidths) = Len(userOutputs)
  /\ \A i \in 1..Len(queryWidths) :
       /\ queryWidths[i] = 32
       /\ Width(userOutputs[i]) = IF use_timestamps THEN 65 ELSE 32
  /\ candidateWidth \in {0, 32}
  /\ candidateWidth # 0 =>
       /\ movieWidth = 64
       /\ \A i \in 1..Len(queryWidths) :
            /\ queryWidths[i] = candidateWidth
            /\ Width(userOutputs[i]) # movieWidth

C17_Witness ==
  /\ use_timestamps
  /\ Len(queryWidths) = 2
  /\ queryWidths[1] = 32
  /\ candidateWidth = 32
  /\ Width(userOutputs[1]) = 65

\* C18: no rating is given both by a pass over cached_train and by
\* cached_test; every pass over cached_train gives the first TrainCount
\* ratings of the one shuffled order, in some order of its own; cached_test
\* holds the TestCount ratings after them; together they are all ratings
C18_SplitIsDisjoint ==
  /\ trainSeen \cap Range(testCache) = {}
  /\ epochs >= 1 =>
       /\ trainSeen = Range(SubSeq(shuffled, 1, TrainCount))
       /\ Range(lastEpoch) = trainSeen
       /\ Len(lastEpoch) = TrainCount
  /\ testCache # << >> =>
       testCache = SubSeq(shuffled, TrainCount + 1, NumRatings)
  /\ (epochs >= 1 /\ testCache # << >>) =>
       /\ trainSeen \cup Range(testCache) = Ratings
       /\ Cardinality(trainSeen) + Len(testCache) = NumRatings

C18_Witness ==
  /\ epochs = 2
  /\ testCache # << >>
  /\ lastEpoch # SubSeq(shuffled, 1, TrainCount)
  /\ trainSeen \cap Range(testCache) = {}

\* the entries of a response that have a 'Celebrity' key and a confidence
\* above 95, in the order of the response
RECURSIVE QualifyingEntries(_)
QualifyingEntries(list) ==
  IF list = << >>
    THEN << >>
    ELSE LET rest == QualifyingEntries(SubSeq(list, 1, Len(list) - 1))
             last == list[Len(list)]
         IN  IF "Celebrity" \in DOMAIN last
               THEN IF last.Celebrity.Confidence > 95000
                      THEN Append(rest, last)
                      ELSE rest
               ELSE rest

\* the names of entries, each at its first occurrence only
RECURSIVE FirstNames(_)
FirstNames(entries) ==
  IF entries = << >>
    THEN << >>
    ELSE LET rest == FirstNames(SubSeq(entries, 1, Len(entries) - 1))
             name == entries[Len(entries)].Celebrity.Name
         IN  IF name \in Range(rest) THEN rest ELSE Append(rest, name)

\* C19: when the cell has displayed strOverall, the keys of theCelebs are
\* the distinct names of the entries that have a 'Celebrity' key and a
\* confidence above 95, and strOverall has one 'Name: ...' line per such
\* name, in the order of the names' first qualifying detections
C19_OverallListsEachNameOnce ==
  listDone =>
     LET names == FirstNames(QualifyingEntries(celebrities))
     IN  /\ theCelebs = names
         /\ \A i, j \in 1..Len(theCelebs) :
              theCelebs[i] = theCelebs[j] => i = j
         /\ Len(strOverall) = Len(names)
         /\ \A i \in 1..Len(names) :
              strOverall[i] = << "Name: ", names[i], "<br>" >>

C19_Witness ==
  /\ listDone
  /\ Len(strDetail) = 3
  /\ Len(strOverall) = 2
  /\ celebrities[1].Celebrity.Name = celebrities[3].Celebrity.Name

\* C20: while the loop runs and after it, strDetail holds one line per entry
\* handled so far that has a 'Celebrity' key and a confidence above 95, in
\* the order of the response and with repeated names kept; other entries
\* add nothing to strDetail or theCelebs, and the cell raises no error
C20_DetailKeepsEveryDetection ==
  LET handled == QualifyingEntries(SubSeq(celebrities, 1, listed))
  IN  /\ listError = "-"
      /\ Len(strDetail) = Len(handled)
      /\ \A i \in 1..Len(handled) :
           /\ strDetail[i][2] = handled[i].Timestamp
           /\ strDetail[i][4] = handled[i].Celebrity.Name
      /\ Range(theCelebs) =
           {handled[i].Celebrity.Name : i \in 1..Len(handled)}

C20_Witness ==
  /\ listed = 3
  /\ Len(strDetail) = 2
  /\ strDetail[1][4] = strDetail[2][4]
  /\ "Celebrity" \notin DOMAIN celebrities[2]

\* ---------------------------------------------------------------- C21
\* the faces the cell that is run takes from the response
DrawnFaces ==
  IF drawnCell = "celebrity" THEN faceResponse.CelebrityFaces
  ELSE faceResponse.UnrecognizedFaces

\* C21: once the cell has built its list, the list handed to
\* drawBoundingBoxes has one (label, BoundingBox) pair per face of the
\* response list, in the order of the response; the label is the Name of a
\* recognized celebrity and 'Unrecognized Face' for an unrecognized face.
\* With no face in the list the box list is empty, nothing is drawn, and
\* the image is saved and displayed all the same once it was downloaded.
C21_BoxesFollowTheResponse ==
  drawPc # "-" =>
    /\ Len(boxList) = Len(DrawnFaces)
    /\ \A i \in 1..Len(DrawnFaces) :
         /\ Len(boxList[i]) = 2
         /\ boxList[i][1] = IF drawnCell = "celebrity"
                              THEN DrawnFaces[i].Name
                              ELSE "Unrecognized Face"
         /\ boxList[i][2] = IF drawnCell = "celebrity"
                              THEN DrawnFaces[i].Face.BoundingBox
                              ELSE DrawnFaces[i].BoundingBox
    /\ DrawnFaces = << >> =>
         /\ boxList = << >>
         /\ drawOps = << >>
         /\ drawPc \in {"download", "loop", "shown", "ClientError"}
         /\ drawPc = "shown" =>
              /\ shown
              /\ \E f \in tempFiles :
                   /\ f.format \in {"PNG", "JPEG"}
                   /\ f.annotated = << >>

\* two different celebrities were drawn, May before Clarkson
C21_Witness ==
  /\ drawPc = "shown"
  /\ drawnCell = "celebrity"
  /\ Len(faceResponse.CelebrityFaces) = 2
  /\ faceResponse.CelebrityFaces[1].Name = "May"
  /\ faceResponse.CelebrityFaces[2].Name = "Clarkson"
  /\ boxList[1][1] = "May"
  /\ boxList[2][1] = "Clarkson"

\* ---------------------------------------------------------------- C22
\* C22: the colour index of drawBoundingBoxes is in 0..3 whenever it
\* indexes colors, whatever the number of boxes: no IndexError ends the
\* loop, the i-th box (from 0) is drawn with colors[i mod 4], and each box
\* is one text and three rectangles, the rectangles widened by 0, 1 and 2
\* pixels and in the colour of the text.
C22_ColourIndexInRange ==
  LET palette ==
        << << 255, 255, 255 >>, << 255, 255, 255 >>, << 76, 182, 252 >>,
           << 52, 194, 123 >> >>
  IN  /\ col \in 0..3
      /\ drawPc # "IndexError"
      /\ drawPc \in {"loop", "shown"} => col = boxIndex % 4
      /\ Len(drawOps) = 4 * boxIndex
      /\ \A i \in 0..(boxIndex - 1) :
           LET text == drawOps[4 * i + 1]
               first == drawOps[4 * i + 2]
           IN  /\ text.shape = "text"
               /\ text.text = boxList[i + 1][1]
               /\ text.colour = palette[(i % 4) + 1]
               /\ << first.xy[1], first.xy[2] >> = text.xy
               /\ \A l \in 0..2 :
                    LET r == drawOps[4 * i + 2 + l]
                    IN  /\ r.shape = "rectangle"
                        /\ r.colour = text.colour
                        /\ r.xy = << first.xy[1] - l, first.xy[2] - l,
                                     first.xy[3] + l, first.xy[4] + l >>

\* a fifth box was drawn, with the first colour again
C22_Witness ==
  /\ drawPc = "shown"
  /\ boxIndex = 5
  /\ col = 1
  /\ Len(drawOps) = 20
  /\ drawOps[17].colour = << 255, 255, 255 >>
  /\ drawOps[13].colour = << 52, 194, 123 >>

\* ---------------------------------------------------------------- C23
\* the keys of SourceImages whose lower-cased form ends with jpg or jpeg
C23_JpegKeys ==
  { << "m", "/", "a", ".", "j", "p", "g" >>,
    << "a", ".", "J", "P", "G" >>,
    << "a", ".", "j", "p", "e", "g" >>,
    << "a", ".", "J", "p", "e", "G" >>,
    << "a", "j", "p", "g" >> }

\* tempFolder followed by the base name of a key of SourceImages
C23_Location(key) ==
  << "m", "1", "t", "m", "p", "/" >> \o
    (IF key[1] = "m" THEN SubSeq(key, 3, Len(key)) ELSE key)

\* C23: the image drawBoundingBoxes saves is a JPEG exactly when the
\* lower-cased key ends with 'jpg' or 'jpeg' and a PNG for every other
\* key; it is written to tempFolder under the base name of the key, where
\* it replaces the downloaded original.
C23_FormatFollowsTheKey ==
  /\ drawPc = "loop" =>
       tempFiles = {[path |-> C23_Location(sourceImage),
                     format |-> "original", annotated |-> << >>]}
  /\ drawPc = "shown" =>
       tempFiles =
         {[path |-> C23_Location(sourceImage),
           format |-> IF sourceImage \in C23_JpegKeys THEN "JPEG" ELSE "PNG",
           annotated |-> drawOps]}

\* a key with an upper-case extension was saved as JPEG
C23_Witness ==
  /\ drawPc = "shown"
  /\ sourceImage = << "a", ".", "J", "P", "G" >>
  /\ \E f \in tempFiles :
       /\ f.format = "JPEG"
       /\ f.path = << "m", "1", "t", "m", "p", "/", "a", ".", "J", "P", "G" >>

\* ---------------------------------------------------------------- C24
\* C24 as stated: the wait cell never stops polling while the last status
\* it observed is IN_PROGRESS
C24_NeverStopsInProgress ==
  outcome["c_wait"] \notin {"-", "running"} =>
    getCelebrityRecognition.JobStatus # "IN_PROGRESS"

\* C24: the wait cell has no timeout and no attempt limit: as long as the
\* last observed status is IN_PROGRESS the cell is running and its next
\* step is another sleep, however often it has slept; it ends normally
\* only with another status, and it stops with IN_PROGRESS as the last
\* observed status only when a status call raised.
C24_StopsInProgressOnlyByError ==
  /\ pc \in {"wait_call", "wait_test", "wait_slept"} =>
       outcome["c_wait"] = "running"
  /\ (pc = "wait_test"
        /\ getCelebrityRecognition.JobStatus = "IN_PROGRESS") =>
       /\ ENABLED WaitSleep
       /\ ~ENABLED WaitExit
  /\ outcome["c_wait"] = "ok" =>
       getCelebrityRecognition.JobStatus # "IN_PROGRESS"
  /\ (outcome["c_wait"] \notin {"-", "running"}
        /\ getCelebrityRecognition.JobStatus = "IN_PROGRESS") =>
       outcome["c_wait"] = "ClientError"

\* the cell has slept as often as the service is followed and polls on
C24_Witness ==
  /\ pc = "wait_slept"
  /\ outcome["c_wait"] = "running"
  /\ sleeps = MaxPolls
  /\ getCelebrityRecognition.JobStatus = "IN_PROGRESS"

\* ---------------------------------------------------------------- C25
\* C25: the video cells treat a failed job as a succeeded one: at the loop
\* test either final status lets the loop exit and nothing else, the wait
\* cell then ends normally having displayed that status, and the listing
\* cell reads 'Celebrities' from whatever response is bound, FAILED
\* included: it raises NameError only when no response is bound and
\* KeyError only when the response lacks the key, and otherwise displays
\* its result; no outcome depends on the status being SUCCEEDED.
C25_FailedIsTreatedAsSucceeded ==
  /\ (pc = "wait_test"
        /\ getCelebrityRecognition.JobStatus \in {"SUCCEEDED", "FAILED"}) =>
       /\ ENABLED WaitExit
       /\ ~ENABLED WaitSleep
  /\ outcome["c_wait"] = "ok" =>
       /\ displayed = getCelebrityRecognition.JobStatus
       /\ displayed \in {"SUCCEEDED", "FAILED"}
  /\ outcome["c_list"] # "-" =>
       \/ /\ outcome["c_list"] = "NameError"
          /\ listError = "NameError"
          /\ ~listDone
       \/ /\ outcome["c_list"] = "KeyError"
          /\ listError = "KeyError"
          /\ ~listDone
          /\ "getCelebrityRecognition" \in bound
          /\ getCelebrityRecognition.JobStatus # "SUCCEEDED"
       \/ /\ outcome["c_list"] = "ok"
          /\ listError = "-"
          /\ listDone
          /\ "getCelebrityRecognition" \in bound
  /\ (runAll /\ outcome["c_list"] # "-") =>
       /\ outcome["c_wait"] = "ok"
       /\ outcome["c_list"] \in {"ok", "KeyError"}

\* a top-to-bottom run listed the result of a job that failed
C25_Witness ==
  /\ runAll
  /\ outcome["c_wait"] = "ok"
  /\ displayed = "FAILED"
  /\ getCelebrityRecognition.JobStatus = "FAILED"
  /\ outcome["c_list"] = "ok"
  /\ listDone

\* ---------------------------------------------------------------- C26
\* the registries the region table lists for the regions of Regions
C26_RegionTable ==
  [r \in {"us-west-1", "us-west-2", "us-east-1", "us-east-2"} |->
     CASE r = "us-west-1" -> "632365934929.dkr.ecr.us-west-1.amazonaws.com"
       [] r = "us-west-2" -> "174872318107.dkr.ecr.us-west-2.amazonaws.com"
       [] r = "us-east-1" -> "382416733822.dkr.ecr.us-east-1.amazonaws.com"
       [] r = "us-east-2" -> "404615174143.dkr.ecr.us-east-2.amazonaws.com"]

\* C26: once the configuration cell of the pipeline notebook has run,
\* AWS_ECR_REGISTRY is bound exactly when AWS_REGION is us-west-2 or
\* us-east-1, and then to the registry the region table lists for that
\* region; in any other region of the table the name stays unbound, and
\* the cell raises nothing when it is run in its turn.
C26_RegistryBoundInTwoRegions ==
  /\ "AWS_ECR_REGISTRY" \in bound => outcome["p_config"] = "ok"
  /\ outcome["p_config"] = "ok" =>
       /\ awsRegion \in DOMAIN C26_RegionTable
       /\ "AWS_ECR_REGISTRY" \in bound <=>
            awsRegion \in {"us-west-2", "us-east-1"}
       /\ ecrRegistry = IF awsRegion \in {"us-west-2", "us-east-1"}
                          THEN C26_RegionTable[awsRegion]
                          ELSE "-"
  /\ (runAll /\ outcome["p_config"] # "-") => outcome["p_config"] = "ok"

\* the cell has run in another region of the table and bound no registry
C26_Witness ==
  /\ runAll
  /\ outcome["p_config"] = "ok"
  /\ awsRegion = "us-east-2"
  /\ "AWS_ECR_REGISTRY" \notin bound
  /\ "S3_PIPELINE_PATH" \in bound
====
